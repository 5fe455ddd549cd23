------------------------------ MODULE DoorProofs ------------------------------
(***************************************************************************)
(* What the door (Door) promises, for any requests, budgets and addresses, *)
(* any number of pools kept, callers remembered and places: the limiter's  *)
(* promise, what an eviction may do to a run, how many pools there are,    *)
(* and what is left when the process ends.                                 *)
(***************************************************************************)
EXTENDS Door, FiniteSetTheorems, TLAPS

USE DEF reqVars, poolVars, rateVars, mainVars, vars

-----------------------------------------------------------------------------
(* Ordered dictionaries. *)

LEMMA DroppedEntry ==
  ASSUME NEW S, NEW s \in Seq(S), NEW i \in DOMAIN s
  PROVE  /\ Dropped(s, i) \in Seq(S) /\ Len(Dropped(s, i)) = Len(s) - 1
         /\ \A n \in 1..(Len(s) - 1) : Dropped(s, i)[n] = s[IF n < i THEN n ELSE n + 1]
<1>1. /\ Len(s) \in Nat /\ DOMAIN s = 1..Len(s) /\ \A n \in 1..Len(s) : s[n] \in S
      /\ Len(s) - 1 \in Nat
  OBVIOUS
<1>2. \A n \in 1..(Len(s) - 1) : s[IF n < i THEN n ELSE n + 1] \in S
  BY <1>1
<1>3. Dropped(s, i) \in [1..(Len(s) - 1) -> S]
  BY <1>2 DEF Dropped
<1>4. Dropped(s, i) \in Seq(S)
  BY <1>1, <1>3
<1> DEFINE d == Dropped(s, i)
<1>5. Len(d) = Len(s) - 1
  <2> HIDE DEF d
  <2>1. Len(d) \in Nat /\ DOMAIN d = 1..Len(d) /\ DOMAIN d = 1..(Len(s) - 1)
    BY <1>3, <1>4 DEF d
  <2>2. Len(d) # 0 => Len(d) \in 1..(Len(s) - 1)
    BY <2>1
  <2>3. Len(s) - 1 # 0 => Len(s) - 1 \in 1..Len(d)
    <3>1. Len(s) - 1 # 0 => Len(s) - 1 \in 1..(Len(s) - 1)
      BY <1>1
    <3> QED
      BY <2>1, <3>1
  <2>4. \A a, b \in Nat : (a # 0 => a \in 1..b) /\ (b # 0 => b \in 1..a) => a = b
    OBVIOUS
  <2>5. Len(d) \in Nat /\ Len(s) - 1 \in Nat
    BY <1>1, <2>1
  <2> QED
    BY ONLY <2>2, <2>3, <2>4, <2>5
<1> QED
  BY <1>4, <1>5 DEF Dropped

\* What is before the last entry is the rest of what there was, in its order.
Rest0(s, at, t) ==
  \E g \in [1..(Len(t) - 1) -> (DOMAIN s) \ at] :
    /\ \A n \in 1..(Len(t) - 1) : t[n] = s[g[n]]
    /\ \A m \in (DOMAIN s) \ at : \E n \in 1..(Len(t) - 1) : g[n] = m
    /\ \A n, m \in 1..(Len(t) - 1) : n < m => g[n] < g[m]

LEMMA MovedEntry ==
  ASSUME NEW S, NEW s \in Seq(S), NEW e \in S, NEW at \in SUBSET DOMAIN s,
         \A i, j \in at : i = j
  PROVE  /\ Moved(s, at, e) \in Seq(S)
         /\ Len(Moved(s, at, e)) \in 1..(Len(s) + 1)
         /\ Moved(s, at, e)[Len(Moved(s, at, e))] = e
         /\ Rest0(s, at, Moved(s, at, e))
<1> DEFINE t == Moved(s, at, e)
<1>1. Len(s) \in Nat /\ DOMAIN s = 1..Len(s)
  OBVIOUS
<1>2. CASE at = {}
  <2>1. t = Append(s, e)
    BY <1>2 DEF Moved
  <2>2. /\ t \in Seq(S) /\ Len(t) = Len(s) + 1 /\ t[Len(t)] = e
        /\ \A n \in 1..Len(s) : t[n] = s[n]
    BY <2>1
  <2> HIDE DEF t
  <2> DEFINE g == [n \in 1..(Len(t) - 1) |-> n]
  <2>3. Len(t) - 1 = Len(s)
    BY <1>1, <2>2
  <2>4. g \in [1..(Len(t) - 1) -> (DOMAIN s) \ at]
    BY <1>1, <1>2, <2>3
  <2>5. /\ \A n \in 1..(Len(t) - 1) : t[n] = s[g[n]]
        /\ \A m \in (DOMAIN s) \ at : \E n \in 1..(Len(t) - 1) : g[n] = m
        /\ \A n, m \in 1..(Len(t) - 1) : n < m => g[n] < g[m]
    BY <1>1, <2>2, <2>3
  <2> HIDE DEF g
  <2>6. Rest0(s, at, t)
    BY <2>4, <2>5 DEF Rest0
  <2> QED
    BY <1>1, <2>2, <2>6 DEF t
<1>3. CASE at # {}
  <2> DEFINE i == CHOOSE i \in at : TRUE
  <2>1. i \in at /\ i \in DOMAIN s /\ at = {i}
    BY <1>3
  <2>2. t = Append(Dropped(s, i), e)
    BY <1>3 DEF Moved
  <2> HIDE DEF i
  <2>3. /\ t \in Seq(S) /\ Len(t) = Len(s) /\ t[Len(t)] = e
        /\ \A n \in 1..(Len(s) - 1) : t[n] = s[IF n < i THEN n ELSE n + 1]
    <3>1. /\ Dropped(s, i) \in Seq(S) /\ Len(Dropped(s, i)) = Len(s) - 1
          /\ \A n \in 1..(Len(s) - 1) :
               Dropped(s, i)[n] = s[IF n < i THEN n ELSE n + 1]
      BY <2>1, DroppedEntry
    <3> DEFINE d == Dropped(s, i)
    <3>a. d \in Seq(S) /\ Len(d) = Len(s) - 1
      BY <3>1
    <3> HIDE DEF d
    <3>b. /\ Append(d, e) \in Seq(S) /\ Len(Append(d, e)) = Len(d) + 1
          /\ Append(d, e)[Len(d) + 1] = e
          /\ \A n \in 1..Len(d) : Append(d, e)[n] = d[n]
      BY <3>a
    <3>2. /\ Append(d, e) \in Seq(S) /\ Len(Append(d, e)) = Len(s)
          /\ Append(d, e)[Len(s)] = e
          /\ \A n \in 1..(Len(s) - 1) : Append(d, e)[n] = d[n]
      BY <1>1, <3>a, <3>b
    <3> QED
      BY <2>2, <3>1, <3>2 DEF d
  <2> HIDE DEF t
  <2> DEFINE g == [n \in 1..(Len(t) - 1) |-> IF n < i THEN n ELSE n + 1]
  <2>4. i \in 1..Len(s)
    BY <1>1, <2>1
  <2>5. g \in [1..(Len(t) - 1) -> (DOMAIN s) \ at]
    BY <1>1, <2>1, <2>3, <2>4
  <2>6. \A m \in (DOMAIN s) \ at : \E n \in 1..(Len(t) - 1) : g[n] = m
    <3> TAKE m \in (DOMAIN s) \ at
    <3>1. m \in 1..Len(s) /\ m # i
      BY <1>1, <2>1
    <3>2. CASE m < i
      <4>1. m \in 1..(Len(t) - 1) /\ g[m] = m
        BY <1>1, <2>3, <2>4, <3>1, <3>2
      <4> QED
        BY <4>1
    <3>3. CASE m > i
      <4>1. m - 1 \in 1..(Len(t) - 1) /\ g[m - 1] = m
        BY <1>1, <2>3, <2>4, <3>1, <3>3
      <4> QED
        BY <4>1
    <3> QED
      BY <2>4, <3>1, <3>2, <3>3
  <2>7. /\ \A n \in 1..(Len(t) - 1) : t[n] = s[g[n]]
        /\ \A n, m \in 1..(Len(t) - 1) : n < m => g[n] < g[m]
    BY <1>1, <2>3, <2>4
  <2> HIDE DEF g
  <2>8. Rest0(s, at, t)
    BY <2>5, <2>6, <2>7 DEF Rest0
  <2>9. Len(t) \in 1..(Len(s) + 1)
    BY <1>1, <2>3, <2>4
  <2> QED
    BY <2>3, <2>8, <2>9 DEF t
<1> QED
  BY <1>2, <1>3

-----------------------------------------------------------------------------
(* Types, and that an ordered dictionary has a key once. *)

Buckets == [key : Keys, level : Int, last : Nat]
Entries == [budget : Budgets, pool : Pools]

Keyed ==
  /\ \A i, j \in DOMAIN buckets : buckets[i].key = buckets[j].key => i = j
  /\ \A i \in DOMAIN buckets : buckets[i].last <= now
  /\ \A r \in Requests : clock[r] <= now
  /\ \A i, j \in DOMAIN registry : registry[i].budget = registry[j].budget => i = j
Asked == \A r \in Requests : pc[r] # "new" => ask[r] \in Asks

\* A request that was given a pool, has one to close or is served, has it.
Evicting == {"evict", "drain", "kill"}
Given ==
  \A r \in Requests :
    /\ pc[r] \in Evicting \union {"use", "start", "register", "serving"}
         => pool[r] \in Pools
    /\ pc[r] \in Evicting => stale[r] \in Pools
    /\ pc[r] = "serving" => worker[r] \in Requests

Typed == TypeOK /\ Keyed /\ Asked /\ Given

LEMMA TypedInit == Init => Typed
<1> SUFFICES ASSUME Init PROVE Typed
  OBVIOUS
<1> USE DEF Init
<1>1. RequestTypes
  BY DEF RequestTypes, Places, Outcomes
<1>2. PoolTypes
  <2>1. registry \in Seq([budget : Budgets, pool : Pools])
    OBVIOUS
  <2> QED
    BY <2>1 DEF PoolTypes
<1>3. RateTypes
  <2>1. buckets \in Seq([key : Keys, level : Int, last : Nat])
    OBVIOUS
  <2> QED
    BY <2>1 DEF RateTypes
<1>4. MainTypes
  BY DEF MainTypes
<1> QED
  BY <1>1, <1>2, <1>3, <1>4 DEF Typed, TypeOK, Keyed, Asked, Given, Evicting

\* What the proofs need of a scene, and of the numbers it gives.
LEMMA SceneFacts ==
  ASSUME Typed
  PROVE  /\ PerMinute \in Nat \ {0} /\ Full \in Nat /\ Full = PerMinute * Refill
         /\ Refill \in Nat \ {0} /\ Remember \in Nat \ {0} /\ Keep \in Nat \ {0}
         /\ \A r \in Requests : ask[r] \in Asks \union {None}
<1>1. scene \in Scenes
  BY DEF Typed, TypeOK, RateTypes
<1>2. scene.asks \in [Requests -> Asks \union {None}] /\ scene.rate \in Nat \ {0}
  BY <1>1, AsksAssumption
<1> QED
  BY <1>2, SizesAssumption DEF PerMinute, Full, ask

LEMMA KeyFacts ==
  ASSUME NEW a \in Asks
  PROVE  /\ Key(a) \in Keys /\ a.bearer \in BOOLEAN /\ a.budget \in Budgets
         /\ Route(a)[1] \in {"done", "use", "pool"}
         /\ Route(a)[2] \in {"ok", "unauthorized", "none", "ceiling"}
         /\ Route(a)[2] = "none" <=> Route(a)[1] # "done"
         /\ Route(a)[1] = "pool" => a.bearer /\ a.what = "run"
<1>1. /\ a.bearer \in BOOLEAN /\ a.from \in Addresses /\ a.budget \in Budgets
      /\ a.what \in {"health", "check", "run"}
  BY DEF Asks
<1>2. Key(a) \in Keys
  BY <1>1 DEF Key, Keys
<1>3. \/ Route(a) = <<"done", "ok">> \/ Route(a) = <<"done", "unauthorized">>
      \/ Route(a) = <<"use", "none">> \/ Route(a) = <<"done", "ceiling">>
      \/ Route(a) = <<"pool", "none">> /\ a.bearer /\ a.what = "run"
  BY <1>1 DEF Route
<1> QED
  BY <1>1, <1>2, <1>3

LEMMA Element == ASSUME NEW S, NEW s \in Seq(S), NEW i \in DOMAIN s PROVE s[i] \in S
  OBVIOUS

LEMMA EntryFacts ==
  ASSUME Typed
  PROVE  /\ buckets \in Seq(Buckets) /\ registry \in Seq(Entries)
         /\ \A i \in DOMAIN buckets :
              /\ buckets[i].key \in Keys /\ buckets[i].level \in Int
              /\ buckets[i].last \in Nat /\ buckets[i].last <= now
         /\ \A i \in DOMAIN registry :
              registry[i].budget \in Budgets /\ registry[i].pool \in Pools
<1>1. buckets \in Seq(Buckets) /\ registry \in Seq(Entries)
  BY DEF Typed, TypeOK, RateTypes, PoolTypes, Buckets, Entries
<1>2. \A i \in DOMAIN buckets : buckets[i] \in Buckets
  BY <1>1, Element
<1>3. \A i \in DOMAIN registry : registry[i] \in Entries
  BY <1>1, Element
<1>4. \A i \in DOMAIN buckets : buckets[i].last <= now
  BY DEF Typed, Keyed
<1> QED
  BY <1>1, <1>2, <1>3, <1>4 DEF Buckets, Entries

\* What is in a bucket: what was left and what was earned since, or a full one.
LEMMA LevelFacts ==
  ASSUME Typed, NEW k \in Keys, NEW t \in Nat
  PROVE  /\ Level(k, t) \in Int /\ Level(k, t) <= Full
         /\ Bucket(k) = {} => Level(k, t) = Full
         /\ \A i \in Bucket(k) :
              LET earned == buckets[i].level + (t - buckets[i].last) IN
              Level(k, t) <= earned /\ (Level(k, t) = Full \/ Level(k, t) = earned)
<1>1. Full \in Nat
  BY SceneFacts
<1>2. \A i \in DOMAIN buckets : buckets[i].level \in Int /\ buckets[i].last \in Nat
  BY EntryFacts
<1>3. CASE Bucket(k) = {}
  BY <1>1, <1>3 DEF Level
<1>4. CASE Bucket(k) # {}
  <2> DEFINE c == CHOOSE i \in Bucket(k) : TRUE
             e == buckets[c].level + (t - buckets[c].last)
  <2>1. c \in Bucket(k)
    BY <1>4
  <2>2. \A i \in Bucket(k) : i = c
    BY <2>1 DEF Bucket, Typed, Keyed
  <2>3. Level(k, t) = IF e > Full THEN Full ELSE e
    BY <1>4 DEF Level
  <2> HIDE DEF c
  <2>4. c \in DOMAIN buckets
    BY <2>1 DEF Bucket
  <2> QED
    BY <1>1, <1>2, <1>4, <2>1, <2>2, <2>3, <2>4
<1> QED
  BY <1>3, <1>4

\* A key that is seen is remembered, with what is left to it now; of the other
\* keys at most one is forgotten.
LEMMA SeenFacts ==
  ASSUME Typed, NEW k \in Keys, NEW l \in Int, NEW c \in Nat
  PROVE  LET t == Seen(k, l, c)  e == [key |-> k, level |-> l, last |-> c] IN
         /\ t \in Seq(Buckets)
         /\ \A i, j \in DOMAIN t : t[i].key = t[j].key => i = j
         /\ \A i \in DOMAIN t : \/ t[i] = e
                                \/ \E m \in DOMAIN buckets :
                                     buckets[m].key # k /\ t[i] = buckets[m]
         /\ \E i \in DOMAIN t : t[i] = e
<1> DEFINE e == [key |-> k, level |-> l, last |-> c]
           next == Moved(buckets, Bucket(k), e)
           t == Seen(k, l, c)
<1>1. /\ buckets \in Seq(Buckets) /\ e \in Buckets /\ e.key = k
      /\ Bucket(k) \in SUBSET DOMAIN buckets
      /\ \A i, j \in Bucket(k) : i = j
  <2>1. buckets \in Seq(Buckets)
    BY EntryFacts
  <2>2. Bucket(k) \in SUBSET DOMAIN buckets
    BY DEF Bucket
  <2>3. \A i, j \in Bucket(k) : i = j
    BY DEF Bucket, Typed, Keyed
  <2> QED
    BY <2>1, <2>2, <2>3 DEF Buckets
<1>2. t = IF Len(next) > Remember THEN Tail(next) ELSE next
  BY DEF Seen
<1>3. /\ next \in Seq(Buckets) /\ Len(next) \in 1..(Len(buckets) + 1)
      /\ next[Len(next)] = e /\ Rest0(buckets, Bucket(k), next)
  BY <1>1, MovedEntry
<1> HIDE DEF next, e, t
<1>4. PICK g \in [1..(Len(next) - 1) -> (DOMAIN buckets) \ Bucket(k)] :
        /\ \A n \in 1..(Len(next) - 1) : next[n] = buckets[g[n]]
        /\ \A n, m \in 1..(Len(next) - 1) : n < m => g[n] < g[m]
  BY <1>3 DEF Rest0
<1>5. /\ Len(next) \in Nat \ {0} /\ DOMAIN next = 1..Len(next)
      /\ DOMAIN buckets \subseteq Nat
  BY <1>1, <1>3
<1>6. \A n \in 1..(Len(next) - 1) :
        g[n] \in DOMAIN buckets /\ buckets[g[n]].key # k /\ next[n] = buckets[g[n]]
  BY <1>4 DEF Bucket
<1>a. Remember \in Nat \ {0}
  BY SceneFacts
<1>7. \A n \in DOMAIN next : n = Len(next) \/ n \in 1..(Len(next) - 1)
  BY <1>5
<1>8. \A n, m \in DOMAIN next : next[n].key = next[m].key => n = m
  <2> SUFFICES ASSUME NEW n \in DOMAIN next, NEW m \in DOMAIN next, n < m,
                      next[n].key = next[m].key
               PROVE  FALSE
    BY <1>5
  <2>1. n \in 1..(Len(next) - 1)
    BY <1>5
  <2>2. CASE m = Len(next)
    BY <1>1, <1>3, <1>6, <2>1, <2>2
  <2>3. CASE m \in 1..(Len(next) - 1)
    <3>1. g[n] = g[m]
      BY <1>6, <2>1, <2>3 DEF Typed, Keyed
    <3>2. g[n] < g[m] /\ g[n] \in Nat
      BY <1>4, <1>5, <1>6, <2>1, <2>3
    <3> QED
      BY <3>1, <3>2
  <2> QED
    BY <1>7, <2>2, <2>3
<1>9. \A n \in DOMAIN next : \/ next[n] = e
                             \/ \E m \in DOMAIN buckets :
                                  buckets[m].key # k /\ next[n] = buckets[m]
  BY <1>3, <1>6, <1>7
<1>10. CASE Len(next) <= Remember
  <2>0. ~(Len(next) > Remember)
    BY <1>5, <1>10, <1>a
  <2>1. t = next
    BY ONLY <1>2, <2>0
  <2>2. Len(next) \in DOMAIN next
    BY <1>5
  <2> QED
    BY <1>3, <1>8, <1>9, <2>1, <2>2 DEF e, t
<1>11. CASE Len(next) > Remember
  <2>1. t = Tail(next) /\ Len(next) > 1
    BY <1>2, <1>5, <1>11, <1>a
  <2>2. /\ t \in Seq(Buckets) /\ DOMAIN t = 1..(Len(next) - 1)
        /\ \A n \in DOMAIN t : t[n] = next[n + 1]
    BY <1>3, <1>5, <2>1
  <2>3. \A n \in DOMAIN t : n + 1 \in DOMAIN next
    BY <1>5, <2>2
  <2>4. Len(next) - 1 \in DOMAIN t /\ t[Len(next) - 1] = e
    BY <1>3, <1>5, <2>1, <2>2
  <2>5. \A i, j \in DOMAIN t : t[i].key = t[j].key => i = j
    <3> TAKE i, j \in DOMAIN t
    <3>1. i + 1 = j + 1 => i = j
      BY <1>5, <2>2
    <3> QED
      BY <1>8, <2>2, <2>3, <3>1
  <2>6. \A n \in DOMAIN t : \/ t[n] = e
                            \/ \E m \in DOMAIN buckets :
                                 buckets[m].key # k /\ t[n] = buckets[m]
    BY <1>9, <2>2, <2>3
  <2> QED
    BY <2>2, <2>4, <2>5, <2>6 DEF e, t
<1> QED
  BY <1>5, <1>10, <1>11, <1>a

\* A request comes and reads the clock.
LEMMA ArriveMoves ==
  ASSUME NEW r \in Requests, Arrive(r)
  PROVE  /\ pc[r] = "new" /\ ask[r] # None /\ pc' = [pc EXCEPT ![r] = "asks"]
         /\ clock' = [clock EXCEPT ![r] = now]
         /\ UNCHANGED <<scene, outcome, pool, worker, stale, doomed, poolVars,
                        buckets, granted, first, forgotten, mainVars, now, since,
                        late>>
  BY DEF Arrive

\* A request that takes a token, or is told to wait.
LEMMA AdmitFacts ==
  ASSUME Typed, NEW r \in Requests, Admit(r)
  PROVE  \E goes \in BOOLEAN :
           LET a == ask[r]  k == Key(a)  level == Level(k, clock[r])
               to == IF goes THEN Route(a) ELSE <<"done", "limited">>
           IN
           /\ a \in Asks /\ pc[r] = "asks" /\ k \in Keys /\ clock[r] \in Nat
           /\ level \in Int /\ Refill \in Nat
           /\ goes <=> level >= Refill
           /\ buckets' = Seen(k, IF goes THEN level - Refill ELSE level, clock[r])
           /\ granted' = [granted EXCEPT ![k] = IF goes THEN granted[k] + 1 ELSE granted[k]]
           /\ pc' = [pc EXCEPT ![r] = to[1]] /\ outcome' = [outcome EXCEPT ![r] = to[2]]
           /\ pool' = [pool EXCEPT ![r] = IF to[1] = "use" THEN Checker ELSE None]
<1>1. ask[r] \in Asks /\ pc[r] = "asks"
  BY DEF Admit, Typed, Asked
<1>2. PICK goes \in BOOLEAN :
        LET a == ask[r]  to == IF goes THEN Route(a) ELSE <<"done", "limited">> IN
        /\ Take(Key(a), clock[r], goes)
        /\ pc' = [pc EXCEPT ![r] = to[1]] /\ outcome' = [outcome EXCEPT ![r] = to[2]]
        /\ pool' = [pool EXCEPT ![r] = IF to[1] = "use" THEN Checker ELSE None]
  BY DEF Admit
<1> DEFINE k == Key(ask[r])  t == clock[r]
<1>3. k \in Keys /\ t \in Nat /\ Refill \in Nat
  BY <1>1, KeyFacts, SceneFacts DEF Typed, TypeOK, RateTypes
<1>4. Level(k, t) \in Int
  BY <1>3, LevelFacts
<1>5. /\ goes <=> Level(k, t) >= Refill
      /\ buckets' = Seen(k, IF goes THEN Level(k, t) - Refill ELSE Level(k, t), t)
      /\ granted' = [granted EXCEPT ![k] = IF goes THEN granted[k] + 1 ELSE granted[k]]
  <2>1. Take(k, t, goes)
    BY <1>2
  <2> HIDE DEF k, t
  <2>2. goes <=> Level(k, t) >= Refill
    BY <2>1 DEF Take
  <2>3. granted' = [granted EXCEPT ![k] = IF goes THEN granted[k] + 1 ELSE granted[k]]
    BY <2>1 DEF Take
  <2> QED
    BY <2>1, <2>2, <2>3 DEF Take
<1> QED
  BY <1>1, <1>2, <1>3, <1>4, <1>5

\* The rest of what a request does changes nothing of the limiter's.
LEMMA ServeMoves ==
  ASSUME NEW r \in Requests, Serve(r)
  PROVE  /\ pc[r] \notin {"new", "asks", "done"}
         /\ \E to \in Places \ {"new", "asks"} :
              /\ pc' = [pc EXCEPT ![r] = to]
              /\ \/ outcome' = outcome
                 \/ \E how \in {"ok", "not_ok", "closed", "cut"} :
                      to = "done" /\ outcome' = [outcome EXCEPT ![r] = how]
         /\ UNCHANGED <<scene, rateVars, mainVars, now>> \/ EvictKills(r)
         /\ UNCHANGED <<scene, rateVars, main, toClose, closing, now>>
<1>1. CASE GivePool(r)
  BY <1>1 DEF GivePool, Places
<1>2. CASE Evict(r)
  BY <1>2 DEF Evict, Places
<1>3. CASE EvictDrains(r) \/ EvictKills(r)
  BY <1>3 DEF EvictDrains, EvictKills, Places
<1>4. CASE TurnedAway(r) \/ Cut(r)
  BY <1>4 DEF TurnedAway, Cut, Ends, Places
<1>5. CASE GetPlace(r)
  BY <1>5 DEF GetPlace, Places
<1>6. CASE Start(r)
  BY <1>6 DEF Start, Ends, Places
<1>7. CASE Register(r)
  BY <1>7 DEF Register, Ends, Places
<1>8. CASE RunEnds(r)
  BY <1>8 DEF RunEnds, Ends, Places
<1> QED
  BY <1>1, <1>2, <1>3, <1>4, <1>5, <1>6, <1>7, <1>8 DEF Serve

\* What does not concern a request.
Aside == Tick \/ Stop \/ MainStep \/ Rest \/ (\E w \in Requests : Orphan(w)) \/ UNCHANGED vars

LEMMA DoorSteps ==
  ASSUME [Next]_vars
  PROVE  Aside \/ \E r \in Requests : Arrive(r) \/ Admit(r) \/ Serve(r)
  BY DEF Next, Aside, RequestStep

LEMMA AsideMoves ==
  ASSUME Aside
  PROVE  /\ UNCHANGED <<scene, reqVars, rateVars, since, late>>
         /\ now' = now \/ (main = "open" /\ now' = now + 1)
<1>1. CASE Tick \/ Stop \/ Rest \/ UNCHANGED vars \/ \E w \in Requests : Orphan(w)
  BY <1>1 DEF Tick, Stop, Rest, Orphan
<1>2. CASE CloseRegistry \/ CloseKills \/ CloseChecker \/ Return \/ CloseAtExit
             \/ Leave \/ Exit
  BY <1>2 DEF CloseRegistry, CloseKills, CloseChecker, Return, CloseAtExit, Leave, Exit
<1>3. CASE \E p \in Pools : CloseNext(p) \/ Finalize(p)
  BY <1>3 DEF CloseNext, Finalize
<1> QED
  BY <1>1, <1>2, <1>3 DEF Aside, MainStep

\* The pool of a budget goes last, made for the request or found open.
LEMMA GivePoolFacts ==
  ASSUME Typed, NEW r \in Requests, GivePool(r)
  PROVE  \E p \in Pools, order \in Seq(Entries) :
           LET b == ask[r].budget
               at == {i \in DOMAIN registry : registry[i].budget = b}
               goes == Len(order) > Keep
           IN
           /\ b \in Budgets /\ pc[r] = "pool" /\ Threads
           /\ \/ p = r /\ \A i \in at : shut[registry[i].pool]
              \/ ~shut[p] /\ \E i \in at : registry[i].pool = p
           /\ Len(order) \in 1..(Len(registry) + 1)
           /\ order[Len(order)] = Entry(b, p) /\ Rest0(registry, at, order)
           /\ pool' = [pool EXCEPT ![r] = p]
           /\ registry' = (IF goes THEN Tail(order) ELSE order)
           /\ goes => stale' = [stale EXCEPT ![r] = order[1].pool]
           /\ ~goes => stale' = [stale EXCEPT ![r] = None]
           /\ pc' = [pc EXCEPT ![r] = IF goes THEN "evict" ELSE "use"]
           /\ since' = [q \in Requests |->
                          IF pool[q] \notin {None, Checker} /\ ask[q].budget # b
                          THEN since[q] \union {b} ELSE since[q]]
           /\ UNCHANGED <<scene, outcome, worker, doomed, shut, live, idle, proc,
                          rateVars, mainVars, now, late>>
<1> DEFINE b == ask[r].budget
           at == {i \in DOMAIN registry : registry[i].budget = b}
           open == {registry[i].pool : i \in {j \in DOMAIN registry :
                      registry[j].budget = b /\ ~shut[registry[j].pool]}}
           p == IF open = {} THEN r ELSE CHOOSE q \in open : TRUE
           order == Used(b, p)
           goes == IF Len(order) > Keep THEN Head(order).pool ELSE None
<1>1. pc[r] = "pool" /\ Threads
  BY DEF GivePool
<1>2. b \in Budgets
  <2>1. ask[r] \in Asks
    BY <1>1 DEF Typed, Asked
  <2> QED
    BY <2>1, KeyFacts
<1>3. /\ \/ p = r /\ \A i \in at : shut[registry[i].pool]
         \/ ~shut[p] /\ \E i \in at : registry[i].pool = p
      /\ p \in Pools
  <2>1. CASE open = {}
    BY <2>1 DEF Pools
  <2>2. CASE open # {}
    <3>1. p \in open
      BY <2>2
    <3>2. PICK i \in DOMAIN registry :
            registry[i].budget = b /\ ~shut[registry[i].pool] /\ p = registry[i].pool
      BY <3>1
    <3>3. registry[i].pool \in Pools
      BY EntryFacts
    <3> HIDE DEF p, open
    <3> QED
      BY <3>2, <3>3
  <2> QED
    BY <2>1, <2>2
<1>4. /\ registry \in Seq(Entries) /\ at \in SUBSET DOMAIN registry
      /\ \A i, j \in at : i = j
  BY EntryFacts DEF Typed, Keyed
<1> HIDE DEF p, open, at, b
<1>5. /\ Entry(b, p) \in Entries /\ order = Moved(registry, at, Entry(b, p))
  BY <1>2, <1>3 DEF Entry, Entries, Used, at
<1> HIDE DEF order
<1>6. /\ order \in Seq(Entries) /\ Len(order) \in 1..(Len(registry) + 1)
      /\ order[Len(order)] = Entry(b, p) /\ Rest0(registry, at, order)
  BY <1>4, <1>5, MovedEntry
<1>7. /\ pool' = [pool EXCEPT ![r] = p]
      /\ registry' = (IF goes = None THEN order ELSE Tail(order))
      /\ stale' = [stale EXCEPT ![r] = goes]
      /\ pc' = [pc EXCEPT ![r] = IF goes = None THEN "use" ELSE "evict"]
      /\ since' = [q \in Requests |->
                     IF pool[q] \notin {None, Checker} /\ ask[q].budget # b
                     THEN since[q] \union {b} ELSE since[q]]
      /\ UNCHANGED <<scene, outcome, worker, doomed, shut, live, idle, proc,
                     rateVars, mainVars, now, late>>
  BY DEF GivePool, order, p, open, b
<1>8. goes = None <=> ~(Len(order) > Keep)
  <2>1. ASSUME Len(order) > Keep PROVE goes # None
    <3>1. 1 \in DOMAIN order /\ goes = order[1].pool
      BY <1>6, <2>1
    <3>2. order[1] \in Entries
      BY <1>6, <3>1, Element
    <3> QED
      BY <3>1, <3>2, NamesAssumption DEF Entries, Pools
  <2> QED
    BY <2>1
<1>9. Len(order) > Keep => goes = order[1].pool
  BY <1>6
<1> HIDE DEF goes
<1>10. /\ registry' = (IF Len(order) > Keep THEN Tail(order) ELSE order)
       /\ pc' = [pc EXCEPT ![r] = IF Len(order) > Keep THEN "evict" ELSE "use"]
  BY <1>7, <1>8
<1>11. /\ Len(order) > Keep => stale' = [stale EXCEPT ![r] = order[1].pool]
       /\ ~(Len(order) > Keep) => stale' = [stale EXCEPT ![r] = None]
  BY <1>7, <1>8, <1>9
<1> QED
  BY <1>1, <1>2, <1>3, <1>6, <1>7, <1>10, <1>11 DEF b, at

LEMMA RequestTyped == ASSUME Typed, [Next]_vars PROVE RequestTypes'
<1> USE DEF RequestTypes
<1>0. RequestTypes
  BY DEF Typed, TypeOK
<1> USE <1>0
<1>1. CASE Aside
  BY <1>1, AsideMoves
<1>2. ASSUME NEW r \in Requests, Admit(r) PROVE RequestTypes'
  <2>1. PICK goes \in BOOLEAN :
          LET to == IF goes THEN Route(ask[r]) ELSE <<"done", "limited">> IN
          /\ ask[r] \in Asks
          /\ pc' = [pc EXCEPT ![r] = to[1]] /\ outcome' = [outcome EXCEPT ![r] = to[2]]
          /\ pool' = [pool EXCEPT ![r] = IF to[1] = "use" THEN Checker ELSE None]
    BY <1>2, AdmitFacts
  <2>2. UNCHANGED <<worker, stale, doomed, since>>
    BY <1>2 DEF Admit
  <2>3. CASE goes
    BY <2>1, <2>2, <2>3, KeyFacts DEF Places, Outcomes, Pools
  <2>4. CASE ~goes
    BY <2>1, <2>2, <2>4 DEF Places, Outcomes, Pools
  <2> QED
    BY <2>3, <2>4
<1>3. ASSUME NEW r \in Requests, Serve(r) PROVE RequestTypes'
  <2>1. /\ pc' \in [Requests -> Places] /\ outcome' \in [Requests -> Outcomes]
    BY <1>3, ServeMoves DEF Outcomes
  <2>2. CASE GivePool(r)
    <3>1. PICK p \in Pools, order \in Seq(Entries) :
            /\ ask[r].budget \in Budgets
            /\ pool' = [pool EXCEPT ![r] = p] /\ Len(order) \in 1..(Len(registry) + 1)
            /\ \/ stale' = [stale EXCEPT ![r] = order[1].pool]
               \/ stale' = [stale EXCEPT ![r] = None]
            /\ since' = [q \in Requests |->
                           IF pool[q] \notin {None, Checker}
                                /\ ask[q].budget # ask[r].budget
                           THEN since[q] \union {ask[r].budget} ELSE since[q]]
            /\ UNCHANGED <<worker, doomed>>
      BY <2>2, GivePoolFacts
    <3>2. order[1] \in Entries
      <4>1. 1 \in DOMAIN order
        BY <3>1
      <4> QED
        BY <4>1, Element
    <3>3. stale' \in [Requests -> Pools \union {None}]
      BY <3>1, <3>2 DEF Entries
    <3>4. since' \in [Requests -> SUBSET Budgets]
      BY <3>1
    <3> QED
      BY <2>1, <3>1, <3>3, <3>4
  <2>3. CASE Evict(r) \/ TurnedAway(r) \/ Start(r) \/ RunEnds(r) \/ Cut(r) \/ EvictKills(r)
    BY <2>1, <2>3 DEF Evict, TurnedAway, Start, RunEnds, Cut, EvictKills
  <2>4. CASE EvictDrains(r)
    <3>1. live[stale[r]] \subseteq Requests
      <4>1. stale[r] \in Pools
        BY <2>4 DEF Typed, Given, Evicting, EvictDrains
      <4> QED
        BY <4>1 DEF Typed, TypeOK, PoolTypes
    <3> QED
      BY <2>1, <2>4, <3>1 DEF EvictDrains
  <2>5. CASE GetPlace(r)
    <3>1. /\ UNCHANGED <<pool, stale, doomed, since>>
          /\ worker' = worker \/ \E w \in idle[pool[r]] : worker' = [worker EXCEPT ![r] = w]
      BY <2>5 DEF GetPlace
    <3> QED
      <4>1. pool[r] \in Pools
        BY <2>5 DEF Typed, Given, GetPlace
      <4> QED
        BY <2>1, <3>1, <4>1 DEF Typed, TypeOK, PoolTypes
  <2>6. CASE Register(r)
    BY <2>1, <2>6 DEF Register
  <2> QED
    BY <1>3, <2>2, <2>3, <2>4, <2>5, <2>6 DEF Serve
<1>4. ASSUME NEW r \in Requests, Arrive(r) PROVE RequestTypes'
  BY <1>4, ArriveMoves DEF Places
<1> QED
  BY <1>1, <1>2, <1>3, <1>4, DoorSteps

LEMMA PoolTyped == ASSUME Typed, [Next]_vars PROVE PoolTypes'
<1>0. /\ PoolTypes /\ registry \in Seq(Entries) /\ <<>> \in Seq(Entries)
      /\ pool \in [Requests -> Pools \union {None}]
      /\ worker \in [Requests -> Requests \union {None}]
      /\ doomed \in [Requests -> SUBSET Requests]
  BY EntryFacts DEF Typed, TypeOK, RequestTypes
<1> USE <1>0 DEF PoolTypes
<1>1. CASE Aside
  <2>1. CASE Tick \/ Stop \/ Rest \/ UNCHANGED vars \/ \E w \in Requests : Orphan(w)
    BY <2>1 DEF Tick, Stop, Rest, Orphan
  <2>2. CASE CloseRegistry
    <3>1. registry' \in Seq([budget : Budgets, pool : Pools])
      BY <2>2 DEF CloseRegistry, Entries
    <3> QED
      BY <2>2, <3>1 DEF CloseRegistry
  <2>3. CASE CloseKills \/ \E p \in Pools : Finalize(p)
    BY <2>3 DEF CloseKills, Finalize, KillWorkers
  <2>4. CASE \E p \in Pools : CloseNext(p)
    BY <2>4 DEF CloseNext, Shut
  <2>5. CASE CloseChecker \/ Return \/ CloseAtExit \/ Leave \/ Exit
    BY <2>5 DEF CloseChecker, Return, CloseAtExit, Leave, Exit
  <2> QED
    BY <1>1, <2>1, <2>2, <2>3, <2>4, <2>5 DEF Aside, MainStep
<1>2. CASE \E r \in Requests : Arrive(r) \/ Admit(r)
  BY <1>2 DEF Arrive, Admit
<1>3. ASSUME NEW r \in Requests, Serve(r) PROVE PoolTypes'
  <2>0. /\ pc[r] \in Evicting \union {"use", "start", "register", "serving"}
             => pool[r] \in Pools
        /\ pc[r] \in Evicting => stale[r] \in Pools
        /\ pc[r] = "serving" => worker[r] \in Requests
    BY DEF Typed, Given
  <2>1. CASE GivePool(r)
    <3>1. PICK order \in Seq(Entries) :
            /\ Len(order) \in 1..(Len(registry) + 1)
            /\ registry' = (IF Len(order) > Keep THEN Tail(order) ELSE order)
            /\ UNCHANGED <<shut, live, idle, proc, late>>
      BY <2>1, GivePoolFacts
    <3>2. order # <<>>
      BY <3>1
    <3>3. registry' \in Seq(Entries)
      BY <3>1, <3>2
    <3> QED
      BY <3>1, <3>3 DEF Entries
  <2>2. CASE Evict(r) \/ TurnedAway(r)
    BY <2>2 DEF Evict, Shut, TurnedAway
  <2>3. CASE EvictDrains(r) \/ EvictKills(r) \/ Start(r)
    BY <2>0, <2>3 DEF EvictDrains, EvictKills, Start
  <2>4. CASE GetPlace(r)
    <3>1. /\ UNCHANGED <<registry, shut, live, late>> /\ pool[r] \in Pools
          /\ \/ UNCHANGED <<idle, proc>>
             \/ \E w \in idle[pool[r]] :
                  /\ idle' = [idle EXCEPT ![pool[r]] = idle[pool[r]] \ {w}]
                  /\ proc' = proc \/ proc' = [proc EXCEPT ![w] = "runs"]
      BY <2>0, <2>4 DEF GetPlace
    <3> QED
      BY <3>1
  <2>5. CASE Register(r)
    <3>1. pool[r] \in Pools /\ UNCHANGED <<registry, shut, idle>>
      BY <2>0, <2>5 DEF Register
    <3>2. CASE shut[pool[r]]
      BY <2>5, <3>1, <3>2 DEF Register
    <3>3. CASE ~shut[pool[r]]
      <4>1. /\ live' = [live EXCEPT ![pool[r]] = live[pool[r]] \union {r}]
            /\ proc' = [proc EXCEPT ![r] = "runs"]
            /\ late' = late \union {r} \/ late' = late
        BY <2>5, <3>3 DEF Register
      <4> QED
        BY <3>1, <4>1
    <3> QED
      BY <3>2, <3>3
  <2>6. CASE RunEnds(r) \/ Cut(r)
    BY <2>0, <2>6 DEF RunEnds, Cut
  <2> QED
    BY <1>3, <2>1, <2>2, <2>3, <2>4, <2>5, <2>6 DEF Serve
<1> QED
  BY <1>1, <1>2, <1>3, DoorSteps

LEMMA RateTyped == ASSUME Typed, [Next]_vars PROVE RateTypes'
<1> USE DEF RateTypes
<1>0. RateTypes
  BY DEF Typed, TypeOK
<1>1. CASE UNCHANGED <<scene, rateVars>> /\ now' \in {now, now + 1}
  BY <1>0, <1>1
<1>2. ASSUME NEW r \in Requests, Admit(r) PROVE RateTypes'
  <2> DEFINE k == Key(ask[r])  t == clock[r]
  <2>1. PICK goes \in BOOLEAN :
          LET l == IF goes THEN Level(k, t) - Refill ELSE Level(k, t) IN
          /\ k \in Keys /\ t \in Nat /\ l \in Int /\ buckets' = Seen(k, l, t)
          /\ granted' = [granted EXCEPT ![k] = IF goes THEN granted[k] + 1 ELSE granted[k]]
    BY <1>2, AdmitFacts
  <2>2. buckets' \in Seq(Buckets)
    BY <2>1, SeenFacts
  <2>3. granted' \in [Keys -> Nat]
    BY <1>0, <2>1
  <2>4. first' \in [Keys -> Int] /\ forgotten' \in [Keys -> Nat]
    <3>1. \E went \in BOOLEAN : Take(k, t, went)
      BY <1>2 DEF Admit
    <3>2. t \in Nat
      BY <2>1
    <3> HIDE DEF k, t
    <3>3. /\ first' = [j \in Keys |-> IF j = k /\ Bucket(k) = {} THEN first[j] + t
                                      ELSE IF Forgets(j) THEN first[j] - now
                                      ELSE first[j]]
          /\ forgotten' = [j \in Keys |-> IF Forgets(j) THEN forgotten[j] + 1
                                          ELSE forgotten[j]]
      BY <3>1 DEF Take
    <3>4. \A j \in Keys : first[j] \in Int /\ forgotten[j] \in Nat /\ now \in Int
      BY <1>0
    <3> HIDE DEF Forgets, Bucket
    <3> QED
      BY <3>2, <3>3, <3>4
  <2>5. scene' = scene /\ now' = now /\ clock' = clock
    BY <1>2 DEF Admit
  <2> QED
    BY <1>0, <2>2, <2>3, <2>4, <2>5 DEF Buckets
<1>3. ASSUME NEW r \in Requests, Arrive(r) PROVE RateTypes'
  BY <1>0, <1>3, ArriveMoves
<1> QED
  BY <1>1, <1>2, <1>3, DoorSteps, AsideMoves, ServeMoves

LEMMA MainTyped == ASSUME Typed, [Next]_vars PROVE MainTypes'
<1> USE DEF MainTypes
<1>0. MainTypes
  BY DEF Typed, TypeOK
<1>1. CASE Aside
  <2>1. CASE Tick \/ Stop \/ Rest \/ UNCHANGED vars \/ \E w \in Requests : Orphan(w)
    BY <1>0, <2>1 DEF Tick, Stop, Rest, Orphan
  <2>2. CASE CloseRegistry
    BY <1>0, <2>2, EntryFacts DEF CloseRegistry
  <2>3. CASE CloseKills \/ CloseChecker \/ Return \/ CloseAtExit \/ Leave \/ Exit
    BY <1>0, <2>3 DEF CloseKills, CloseChecker, Return, CloseAtExit, Leave, Exit,
                      Pools, KillWorkers
  <2>4. CASE \E p \in Pools : CloseNext(p) \/ Finalize(p)
    BY <1>0, <2>4 DEF CloseNext, Finalize
  <2> QED
    BY <1>1, <2>1, <2>2, <2>3, <2>4 DEF Aside, MainStep
<1>2. CASE \E r \in Requests : Arrive(r) \/ Admit(r)
  BY <1>0, <1>2 DEF Arrive, Admit
<1>3. ASSUME NEW r \in Requests, Serve(r) PROVE MainTypes'
  <2>1. CASE EvictKills(r)
    <3>1. stale[r] \in Pools
      BY <2>1 DEF Typed, Given, Evicting, EvictKills
    <3> QED
      BY <1>0, <2>1, <3>1 DEF EvictKills
  <2> QED
    BY <1>0, <1>3, <2>1, ServeMoves
<1> QED
  BY <1>1, <1>2, <1>3, DoorSteps

LEMMA KeyedStep == ASSUME Typed, [Next]_vars PROVE Keyed'
<1>0. now \in Nat /\ clock \in [Requests -> Nat]
  BY DEF Typed, TypeOK, RateTypes
<1>1. /\ \A i, j \in DOMAIN buckets' : buckets'[i].key = buckets'[j].key => i = j
      /\ \A i \in DOMAIN buckets' : buckets'[i].last <= now'
  <2>1. CASE buckets' = buckets /\ now' \in {now, now + 1}
    BY <1>0, <2>1, EntryFacts DEF Typed, Keyed
  <2>2. ASSUME NEW r \in Requests, Admit(r)
        PROVE  /\ \A i, j \in DOMAIN buckets' : buckets'[i].key = buckets'[j].key => i = j
               /\ \A i \in DOMAIN buckets' : buckets'[i].last <= now'
    <3>1. now' = now /\ clock[r] \in Nat /\ clock[r] <= now
      BY <1>0, <2>2 DEF Admit, Typed, Keyed
    <3>2. PICK k \in Keys, l \in Int, c \in Nat : c <= now /\ buckets' = Seen(k, l, c)
      BY <2>2, <3>1, AdmitFacts
    <3>3. LET e == [key |-> k, level |-> l, last |-> c] IN
          /\ \A i, j \in DOMAIN Seen(k, l, c) :
               Seen(k, l, c)[i].key = Seen(k, l, c)[j].key => i = j
          /\ \A i \in DOMAIN Seen(k, l, c) :
               \/ Seen(k, l, c)[i] = e
               \/ \E m \in DOMAIN buckets :
                    buckets[m].key # k /\ Seen(k, l, c)[i] = buckets[m]
      BY SeenFacts
    <3>4. \A i \in DOMAIN buckets' :
            \/ buckets'[i] = [key |-> k, level |-> l, last |-> c]
            \/ \E m \in DOMAIN buckets : buckets'[i] = buckets[m]
      BY <3>2, <3>3
    <3>5. \A i, j \in DOMAIN buckets' : buckets'[i].key = buckets'[j].key => i = j
      BY <3>2, <3>3
    <3>6. \A i \in DOMAIN buckets' : buckets'[i].last <= now'
      BY <1>0, <3>1, <3>2, <3>4, EntryFacts
    <3> QED
      BY <3>5, <3>6
  <2>3. CASE \E r \in Requests : Arrive(r)
    BY <2>1, <2>3, ArriveMoves
  <2> QED
    BY <2>1, <2>2, <2>3, DoorSteps, AsideMoves, ServeMoves
<1>2. \A i, j \in DOMAIN registry' :
        registry'[i].budget = registry'[j].budget => i = j
  <2>1. CASE registry' = registry \/ registry' = <<>>
    BY <2>1 DEF Typed, Keyed
  <2>2. ASSUME NEW r \in Requests, GivePool(r)
        PROVE  \A i, j \in DOMAIN registry' :
                 registry'[i].budget = registry'[j].budget => i = j
    <3> DEFINE b == ask[r].budget
               at == {i \in DOMAIN registry : registry[i].budget = b}
    <3>1. PICK p \in Pools, order \in Seq(Entries) :
            /\ Len(order) \in 1..(Len(registry) + 1)
            /\ order[Len(order)] = Entry(b, p) /\ Rest0(registry, at, order)
            /\ registry' = (IF Len(order) > Keep THEN Tail(order) ELSE order)
      BY <2>2, GivePoolFacts, ZenonT(40)
    <3>2. PICK g \in [1..(Len(order) - 1) -> (DOMAIN registry) \ at] :
            /\ \A n \in 1..(Len(order) - 1) : order[n] = registry[g[n]]
            /\ \A n, m \in 1..(Len(order) - 1) : n < m => g[n] < g[m]
      BY <3>1 DEF Rest0
    <3>3. /\ Len(order) \in Nat \ {0} /\ DOMAIN order = 1..Len(order)
          /\ DOMAIN registry \subseteq Nat
      BY <3>1, EntryFacts
    <3>4. ASSUME NEW n \in DOMAIN order, NEW m \in DOMAIN order, n < m,
                 order[n].budget = order[m].budget
          PROVE  FALSE
      <4>1. n \in 1..(Len(order) - 1)
        BY <3>3, <3>4
      <4>2. g[n] \in DOMAIN registry /\ registry[g[n]].budget # b
        BY <3>2, <4>1
      <4>3. CASE m = Len(order)
        BY <3>1, <3>2, <3>4, <4>1, <4>2, <4>3 DEF Entry
      <4>4. CASE m # Len(order)
        <5>1. m \in 1..(Len(order) - 1)
          BY <3>3, <4>4
        <5>2. g[n] = g[m]
          BY <3>2, <3>4, <4>1, <4>2, <5>1 DEF Typed, Keyed
        <5>3. g[n] < g[m] /\ g[n] \in Nat
          BY <3>2, <3>3, <3>4, <4>1, <4>2, <5>1
        <5> QED
          BY <5>2, <5>3
      <4> QED
        BY <4>3, <4>4
    <3>5. \A n, m \in DOMAIN order : order[n].budget = order[m].budget => n = m
      BY <3>3, <3>4
    <3>6. CASE registry' = Tail(order)
      <4>1. /\ DOMAIN registry' = 1..(Len(order) - 1)
            /\ \A n \in DOMAIN registry' : registry'[n] = order[n + 1]
        BY <3>3, <3>6
      <4>2. \A n \in DOMAIN registry' : n + 1 \in DOMAIN order
        BY <3>3, <4>1
      <4> TAKE i, j \in DOMAIN registry'
      <4>3. i + 1 = j + 1 => i = j
        BY <3>3, <4>1
      <4> QED
        BY <3>5, <4>1, <4>2, <4>3
    <3> QED
      BY <3>1, <3>5, <3>6
  <2>3. registry' = registry \/ registry' = <<>> \/ \E r \in Requests : GivePool(r)
    BY DEF Next, Tick, Stop, MainStep, Rest, Arrive, Admit, RequestStep, Serve, Orphan, CloseRegistry,
           CloseKills, CloseChecker, Return, CloseAtExit, Leave, Exit, CloseNext,
           Finalize, Evict, EvictDrains, EvictKills, TurnedAway, GetPlace, Start,
           Register, RunEnds, Cut
  <2> QED
    BY <2>1, <2>2, <2>3
<1>3. \A r \in Requests : clock'[r] <= now'
  <2>1. CASE clock' = clock /\ now' \in {now, now + 1}
    BY <1>0, <2>1 DEF Typed, Keyed
  <2>2. ASSUME NEW r \in Requests, Arrive(r)
        PROVE  \A q \in Requests : clock'[q] <= now'
    BY <1>0, <2>2, ArriveMoves DEF Typed, Keyed
  <2>3. CASE \E r \in Requests : Admit(r)
    BY <2>1, <2>3 DEF Admit
  <2> QED
    BY <2>1, <2>2, <2>3, DoorSteps, AsideMoves, ServeMoves
<1> QED
  BY <1>1, <1>2, <1>3 DEF Keyed

LEMMA GivenStep == ASSUME Typed, [Next]_vars PROVE Asked' /\ Given'
<1>0. pc \in [Requests -> Places] /\ pool \in [Requests -> Pools \union {None}]
      /\ worker \in [Requests -> Requests \union {None}]
      /\ stale \in [Requests -> Pools \union {None}]
  BY DEF Typed, TypeOK, RequestTypes
<1> USE <1>0
<1>1. CASE Aside
  <2>1. UNCHANGED <<scene, reqVars>>
    BY <1>1, AsideMoves
  <2> QED
    BY <2>1 DEF Typed, Asked, Given, ask
<1>2. ASSUME NEW r \in Requests, Admit(r) PROVE Asked' /\ Given'
  <2>1. PICK goes \in BOOLEAN :
          LET to == IF goes THEN Route(ask[r]) ELSE <<"done", "limited">> IN
          /\ ask[r] \in Asks /\ pc' = [pc EXCEPT ![r] = to[1]]
          /\ pool' = [pool EXCEPT ![r] = IF to[1] = "use" THEN Checker ELSE None]
    BY <1>2, AdmitFacts
  <2>2. UNCHANGED <<scene, worker, stale>>
    BY <1>2 DEF Admit
  <2>3. /\ pc'[r] \in {"done", "use", "pool"} /\ \A q \in Requests \ {r} : pc'[q] = pc[q]
        /\ pc'[r] = "use" => pool'[r] \in Pools
        /\ \A q \in Requests \ {r} : pool'[q] = pool[q]
    <3>1. CASE goes
      BY <2>1, <3>1, KeyFacts DEF Pools
    <3>2. CASE ~goes
      BY <2>1, <3>2
    <3> QED
      BY <3>1, <3>2
  <2> QED
    BY <2>1, <2>2, <2>3 DEF Typed, Asked, Given, Evicting, ask
<1>3. ASSUME NEW r \in Requests, Serve(r) PROVE Asked' /\ Given'
  <2>1. Asked'
    BY <1>3, ServeMoves DEF Typed, Asked, ask
  <2>2. CASE GivePool(r)
    <3>1. PICK p \in Pools, order \in Seq(Entries) :
            /\ Len(order) \in 1..(Len(registry) + 1)
            /\ pool' = [pool EXCEPT ![r] = p] /\ worker' = worker
            /\ pc' = [pc EXCEPT ![r] = IF Len(order) > Keep THEN "evict" ELSE "use"]
            /\ Len(order) > Keep => stale' = [stale EXCEPT ![r] = order[1].pool]
            /\ ~(Len(order) > Keep) => stale' = [stale EXCEPT ![r] = None]
      BY <2>2, GivePoolFacts
    <3>2. order[1].pool \in Pools
      <4>1. 1 \in DOMAIN order
        BY <3>1
      <4>2. order[1] \in Entries
        BY <4>1, Element
      <4> QED
        BY <4>2 DEF Entries
    <3> QED
      BY <2>1, <3>1, <3>2 DEF Typed, Given, Evicting
  <2>3. CASE Evict(r) \/ EvictDrains(r) \/ EvictKills(r)
    BY <2>1, <2>3 DEF Typed, Given, Evicting, Evict, EvictDrains, EvictKills
  <2>4. CASE TurnedAway(r) \/ Start(r) \/ RunEnds(r) \/ Cut(r)
    BY <2>1, <2>4 DEF Typed, Given, Evicting, TurnedAway, Start, RunEnds, Cut, Ends
  <2>5. CASE Register(r)
    BY <2>1, <2>5 DEF Typed, Given, Evicting, Register, Ends
  <2>6. CASE GetPlace(r)
    <3>1. /\ pc[r] = "use" /\ UNCHANGED <<pool, stale>>
          /\ \/ /\ pc' = [pc EXCEPT ![r] = "start"] /\ worker' = worker
             \/ \E w \in idle[pool[r]] : /\ pc' = [pc EXCEPT ![r] = "serving"]
                                         /\ worker' = [worker EXCEPT ![r] = w]
      BY <2>6 DEF GetPlace
    <3>2. pool[r] \in Pools
      BY <3>1 DEF Typed, Given
    <3>3. idle[pool[r]] \subseteq Requests
      BY <3>2 DEF Typed, TypeOK, PoolTypes
    <3> QED
      BY <2>1, <3>1, <3>2, <3>3 DEF Typed, Given, Evicting
  <2> QED
    BY <1>3, <2>2, <2>3, <2>4, <2>5, <2>6 DEF Serve
<1>4. ASSUME NEW r \in Requests, Arrive(r) PROVE Asked' /\ Given'
  <2>1. ask[r] \in Asks
    BY <1>4, SceneFacts, ArriveMoves
  <2>2. UNCHANGED <<scene, pool, worker, stale>> /\ pc' = [pc EXCEPT ![r] = "asks"]
    BY <1>4, ArriveMoves
  <2> QED
    BY <2>1, <2>2 DEF Typed, Asked, Given, Evicting, ask
<1> QED
  BY <1>1, <1>2, <1>3, <1>4, DoorSteps

LEMMA TypedStep == Typed /\ [Next]_vars => Typed'
  BY RequestTyped, PoolTyped, RateTyped, MainTyped, KeyedStep, GivenStep
  DEF Typed, TypeOK

\* The door's variables stay in their types, whatever is asked of it.
THEOREM DoorTypes == Spec => []TypeOK
  BY TypedInit, TypedStep, PTL DEF Spec, Typed

-----------------------------------------------------------------------------
(* The limiter. *)

Granted(k) == {q \in Requests : /\ pc[q] \notin {"new", "asks"}
                                /\ outcome[q] # "limited" /\ Key(ask[q]) = k}

\* What was let through under a key is no more than it has earned by now, and
\* with what is in its bucket no more than it had earned when it was last seen.
Metered ==
  \A k \in Keys :
    /\ Bucket(k) = {} => Refill * granted[k] <= Full * forgotten[k] - first[k]
    /\ Bucket(k) # {} =>
         Refill * granted[k] <= Full * (1 + forgotten[k]) + (now - first[k])
    /\ \A i \in Bucket(k) :
         Refill * granted[k] + buckets[i].level
           <= Full * (1 + forgotten[k]) + (buckets[i].last - first[k])

LEMMA Products ==
  \A a, b \in Nat : a * b \in Nat /\ a * (b + 1) = a * b + a
                    /\ a * (1 + b) = a * b + a /\ a * 0 = 0
  OBVIOUS

LEMMA FullFacts == ASSUME Typed PROVE Full >= Refill
<1>1. PerMinute \in Nat \ {0} /\ Refill \in Nat /\ Full = PerMinute * Refill
  BY SceneFacts
<1>2. \A a, b, c \in Nat : a <= b => a * c <= b * c
  OBVIOUS
<1>3. 1 * Refill <= PerMinute * Refill
  BY <1>1, <1>2
<1> QED
  BY <1>1, <1>3

\* What a request does to its own key, and to the one that may be forgotten.
LEMMA TakeFacts ==
  ASSUME Typed, NEW r \in Requests, Admit(r)
  PROVE  \E k \in Keys, t \in Nat, goes \in BOOLEAN :
           LET level == Level(k, t)
               l == IF goes THEN level - Refill ELSE level
           IN
           /\ k = Key(ask[r]) /\ t = clock[r] /\ t <= now
           /\ goes <=> level >= Refill
           /\ granted'[k] = IF goes THEN granted[k] + 1 ELSE granted[k]
           /\ forgotten'[k] = forgotten[k]
           /\ first'[k] = IF Bucket(k) = {} THEN first[k] + t ELSE first[k]
           /\ Bucket(k)' # {}
           /\ \A i \in Bucket(k)' : buckets'[i].level = l /\ buckets'[i].last = t
           /\ \A j \in Keys \ {k} :
                /\ granted'[j] = granted[j]
                /\ \/ /\ Forgets(j)
                      /\ forgotten'[j] = forgotten[j] + 1 /\ first'[j] = first[j] - now
                   \/ /\ ~Forgets(j)
                      /\ forgotten'[j] = forgotten[j] /\ first'[j] = first[j]
                /\ \A i \in Bucket(j)' : \E m \in Bucket(j) : buckets'[i] = buckets[m]
<1>1. PICK goes \in BOOLEAN :
        LET k == Key(ask[r])  level == Level(k, clock[r]) IN
        /\ k \in Keys /\ clock[r] \in Nat /\ level \in Int /\ Refill \in Nat
        /\ goes <=> level >= Refill
        /\ buckets' = Seen(k, IF goes THEN level - Refill ELSE level, clock[r])
        /\ granted' = [granted EXCEPT ![k] = IF goes THEN granted[k] + 1 ELSE granted[k]]
  BY AdmitFacts
<1>2. PICK k \in Keys, t \in Nat : k = Key(ask[r]) /\ t = clock[r]
  BY <1>1
<1>3. t <= now
  BY <1>2 DEF Typed, Keyed
<1> DEFINE l == IF goes THEN Level(k, t) - Refill ELSE Level(k, t)
<1>4. l \in Int /\ buckets' = Seen(k, l, t)
  BY <1>1, <1>2
<1>5. \E went \in BOOLEAN : Take(k, t, went)
  BY <1>2 DEF Admit
<1> HIDE DEF l
<1>6. LET e == [key |-> k, level |-> l, last |-> t] IN
      /\ \A i \in DOMAIN buckets' :
           \/ buckets'[i] = e
           \/ \E m \in DOMAIN buckets : buckets[m].key # k /\ buckets'[i] = buckets[m]
      /\ \E i \in DOMAIN buckets' : buckets'[i] = e
  <2>1. LET e == [key |-> k, level |-> l, last |-> t] IN
        /\ \A i \in DOMAIN Seen(k, l, t) :
             \/ Seen(k, l, t)[i] = e
             \/ \E m \in DOMAIN buckets :
                  buckets[m].key # k /\ Seen(k, l, t)[i] = buckets[m]
        /\ \E i \in DOMAIN Seen(k, l, t) : Seen(k, l, t)[i] = e
    BY <1>4, SeenFacts
  <2> QED
    BY <1>4, <2>1
<1>7. \A j : Bucket(j)' = {i \in DOMAIN buckets' : buckets'[i].key = j}
  BY DEF Bucket
<1>8. /\ Bucket(k)' # {}
      /\ \A i \in Bucket(k)' : buckets'[i].level = l /\ buckets'[i].last = t
  BY <1>6, <1>7
<1>9. \A j \in Keys \ {k} : \A i \in Bucket(j)' : \E m \in Bucket(j) : buckets'[i] = buckets[m]
  <2> TAKE j \in Keys \ {k}
  <2> TAKE i \in Bucket(j)'
  <2>1. i \in DOMAIN buckets' /\ buckets'[i].key = j /\ j # k
    BY <1>7
  <2>2. PICK m \in DOMAIN buckets : buckets'[i] = buckets[m]
    BY <1>6, <2>1
  <2> QED
    BY <2>1, <2>2 DEF Bucket
<1>10. granted \in [Keys -> Nat]
  BY DEF Typed, TypeOK, RateTypes
<1>11. /\ granted'[k] = IF goes THEN granted[k] + 1 ELSE granted[k]
       /\ \A j \in Keys \ {k} : granted'[j] = granted[j]
  BY <1>1, <1>2, <1>10
<1>12. /\ first' = [j \in Keys |-> IF j = k /\ Bucket(k) = {} THEN first[j] + t
                                   ELSE IF Forgets(j) THEN first[j] - now
                                   ELSE first[j]]
       /\ forgotten' = [j \in Keys |-> IF Forgets(j) THEN forgotten[j] + 1
                                       ELSE forgotten[j]]
  BY <1>5 DEF Take
<1>13. ~Forgets(k)
  BY <1>8 DEF Forgets
<1>14. /\ forgotten'[k] = forgotten[k]
       /\ first'[k] = IF Bucket(k) = {} THEN first[k] + t ELSE first[k]
  BY <1>12, <1>13
<1>15. \A j \in Keys \ {k} :
         \/ /\ Forgets(j)
            /\ forgotten'[j] = forgotten[j] + 1 /\ first'[j] = first[j] - now
         \/ /\ ~Forgets(j)
            /\ forgotten'[j] = forgotten[j] /\ first'[j] = first[j]
  BY <1>12
<1> QED
  BY <1>1, <1>2, <1>3, <1>8, <1>9, <1>11, <1>14, <1>15 DEF l

LEMMA MeteredInit == Init => Metered
<1> SUFFICES ASSUME Init, NEW k \in Keys
             PROVE  /\ Refill * granted[k] <= Full * forgotten[k] - first[k]
                    /\ Bucket(k) = {}
  BY DEF Metered
<1>1. Full \in Nat /\ Refill \in Nat
  BY TypedInit, SceneFacts
<1>2. Refill * 0 = 0 /\ Full * 0 = 0
  BY <1>1, Products
<1>3. granted[k] = 0 /\ forgotten[k] = 0 /\ first[k] = 0 /\ buckets = <<>>
  BY DEF Init
<1> QED
  BY <1>2, <1>3 DEF Bucket

\* The numbers the sums are made of.
LEMMA SumFacts ==
  ASSUME Typed, NEW k \in Keys
  PROVE  /\ now \in Nat /\ first[k] \in Int /\ granted[k] \in Nat /\ forgotten[k] \in Nat
         /\ Full \in Nat /\ Refill \in Nat
         /\ Refill * granted[k] \in Nat /\ Full * forgotten[k] \in Nat
         /\ Refill * (granted[k] + 1) = Refill * granted[k] + Refill
         /\ Full * (forgotten[k] + 1) = Full * forgotten[k] + Full
         /\ Full * (1 + forgotten[k]) = Full * forgotten[k] + Full
         /\ Full * (1 + forgotten[k]) \in Nat
<1>1. /\ now \in Nat /\ first[k] \in Int /\ granted[k] \in Nat /\ forgotten[k] \in Nat
      /\ Full \in Nat /\ Refill \in Nat
  BY SceneFacts DEF Typed, TypeOK, RateTypes
<1>2. Refill * granted[k] \in Nat /\ Full * forgotten[k] \in Nat
  BY <1>1, Products
<1>3. /\ Refill * (granted[k] + 1) = Refill * granted[k] + Refill
      /\ Full * (forgotten[k] + 1) = Full * forgotten[k] + Full
      /\ Full * (1 + forgotten[k]) = Full * forgotten[k] + Full
  BY <1>1, Products
<1>4. Full * (1 + forgotten[k]) \in Nat
  BY <1>1, <1>2, <1>3
<1> QED
  BY <1>1, <1>2, <1>3, <1>4

\* The sums, when nobody asks.
LEMMA MeteredStill ==
  ASSUME Typed, Metered, UNCHANGED <<scene, buckets, granted, first, forgotten>>,
         now' = now \/ now' = now + 1
  PROVE  Metered'
<1>1. Full' = Full /\ \A k \in Keys : Bucket(k)' = Bucket(k)
  BY DEF Full, PerMinute, Bucket
<1>2. ASSUME NEW k \in Keys,
             Refill * granted[k] <= Full * (1 + forgotten[k]) + (now - first[k])
      PROVE  Refill * granted[k] <= Full * (1 + forgotten[k]) + (now' - first[k])
  <2> DEFINE x == Refill * granted[k]  y == Full * (1 + forgotten[k])
  <2>1. x \in Nat /\ y \in Nat /\ now \in Nat /\ first[k] \in Int
    BY SumFacts
  <2> HIDE DEF x, y
  <2>2. x <= y + (now - first[k])
    BY <1>2 DEF x, y
  <2>3. x <= y + (now' - first[k])
    BY <2>1, <2>2
  <2> QED
    BY <2>3 DEF x, y
<1> QED
  BY <1>1, <1>2 DEF Metered

\* The sums of a bucket that was just asked.
LEMMA MeteredTaken ==
  ASSUME NEW G \in Nat, NEW refill \in Nat, NEW level \in Int, NEW cap \in Int,
         NEW goes \in BOOLEAN, goes => level >= refill,
         refill * G + level <= cap
  PROVE  LET g == IF goes THEN G + 1 ELSE G
             l == IF goes THEN level - refill ELSE level
         IN  refill * g + l <= cap /\ (goes => refill * g <= cap)
<1>1. refill * G \in Nat /\ refill * (G + 1) = refill * G + refill
  BY Products
<1> DEFINE x == refill * G  z == refill * (G + 1)
<1>2. x \in Nat /\ z = x + refill /\ x + level <= cap
  BY <1>1
<1> HIDE DEF x, z
<1>3. CASE goes
  <2>1. z + (level - refill) <= cap /\ z <= cap
    BY <1>2, <1>3
  <2> QED
    BY <1>3, <2>1 DEF x, z
<1>4. CASE ~goes
  BY <1>2, <1>4 DEF x
<1> QED
  BY <1>3, <1>4

LEMMA MeteredAdmit == ASSUME Typed, Metered, NEW r \in Requests, Admit(r) PROVE Metered'
<1>1. PICK k \in Keys, t \in Nat, goes \in BOOLEAN :
        LET level == Level(k, t)
            l == IF goes THEN level - Refill ELSE level
        IN
        /\ t <= now
        /\ goes <=> level >= Refill
        /\ granted'[k] = IF goes THEN granted[k] + 1 ELSE granted[k]
        /\ forgotten'[k] = forgotten[k]
        /\ first'[k] = IF Bucket(k) = {} THEN first[k] + t ELSE first[k]
        /\ Bucket(k)' # {}
        /\ \A i \in Bucket(k)' : buckets'[i].level = l /\ buckets'[i].last = t
        /\ \A j \in Keys \ {k} :
             /\ granted'[j] = granted[j]
             /\ \/ /\ Forgets(j)
                   /\ forgotten'[j] = forgotten[j] + 1 /\ first'[j] = first[j] - now
                \/ /\ ~Forgets(j)
                   /\ forgotten'[j] = forgotten[j] /\ first'[j] = first[j]
             /\ \A i \in Bucket(j)' : \E m \in Bucket(j) : buckets'[i] = buckets[m]
  BY TakeFacts
<1>2. now' = now /\ scene' = scene /\ Full' = Full
  BY DEF Admit, Full, PerMinute
<1>3. Level(k, t) \in Int /\ Refill \in Nat /\ Full \in Nat /\ now \in Nat /\ first[k] \in Int
  BY LevelFacts, SumFacts
<1> DEFINE G == granted[k]  F == forgotten[k]  level == Level(k, t)
           l == IF goes THEN level - Refill ELSE level
           y == Full * (1 + F)
<1>4. /\ Refill * granted'[k] + l <= y + (t - first'[k])
      /\ goes => Refill * granted'[k] <= y + (t - first'[k])
  <2>1. Refill * G + level <= y + (t - first'[k]) /\ y + (t - first'[k]) \in Int
    <3>1. Refill * G \in Nat /\ y \in Nat /\ Full * F \in Nat /\ y = Full * F + Full
      BY SumFacts
    <3>2. CASE Bucket(k) = {}
      <4>1. Refill * G <= Full * F - first[k] /\ level = Full /\ first'[k] = first[k] + t
        BY <1>1, <3>2, LevelFacts DEF Metered
      <4> HIDE DEF G, F, level, y
      <4> DEFINE x == Refill * G  z == Full * F
      <4>2. x \in Nat /\ z \in Nat /\ y = z + Full /\ x <= z - first[k]
        BY <3>1, <4>1
      <4> HIDE DEF x, z
      <4>3. x + level <= y + (t - first'[k]) /\ y + (t - first'[k]) \in Int
        BY <1>3, <4>1, <4>2
      <4> QED
        BY <4>3 DEF x
    <3>3. CASE Bucket(k) # {}
      <4>1. PICK m : m \in Bucket(k)
        BY <3>3
      <4>2. buckets[m].level \in Int /\ buckets[m].last \in Nat
        BY <4>1, EntryFacts DEF Bucket
      <4>3. /\ Refill * G + buckets[m].level <= y + (buckets[m].last - first[k])
            /\ first'[k] = first[k]
        BY <1>1, <3>3, <4>1 DEF Metered
      <4>4. level <= buckets[m].level + (t - buckets[m].last)
        BY <4>1, LevelFacts
      <4>5. level \in Int
        BY <1>3
      <4> HIDE DEF G, F, level, y
      <4> DEFINE x == Refill * G  a == buckets[m].level  b == buckets[m].last
      <4>6. x \in Nat /\ y \in Nat /\ a \in Int /\ b \in Nat
            /\ x + a <= y + (b - first[k]) /\ level <= a + (t - b)
        BY <3>1, <4>2, <4>3, <4>4
      <4> HIDE DEF x, a, b
      <4>7. x + level <= y + (t - first'[k]) /\ y + (t - first'[k]) \in Int
        BY <1>3, <4>3, <4>5, <4>6
      <4> QED
        BY <4>7 DEF x
    <3> QED
      BY <3>2, <3>3
  <2>2. goes => level >= Refill
    BY <1>1
  <2>3. G \in Nat /\ level \in Int
    BY <1>3, SumFacts
  <2>4. granted'[k] = IF goes THEN G + 1 ELSE G
    BY <1>1
  <2> HIDE DEF G, level, y
  <2> QED
    BY <1>3, <2>1, <2>2, <2>3, <2>4, MeteredTaken
<1>5. Refill * granted'[k] <= Full * (1 + forgotten'[k]) + (now - first'[k])
  <2>0. /\ y \in Nat /\ Refill * G \in Nat /\ Refill * (G + 1) = Refill * G + Refill
        /\ G \in Nat /\ y = Full * (1 + forgotten'[k])
    BY <1>1, SumFacts
  <2>1. CASE goes
    <3>1. first'[k] \in Int
      BY <1>1, <1>3
    <3>2. Refill * granted'[k] <= y + (t - first'[k]) /\ t <= now
      BY <1>1, <1>4, <2>1
    <3>3. Refill * granted'[k] \in Nat
      BY <1>1, <1>3, <2>0, <2>1
    <3> HIDE DEF y
    <3> DEFINE x == Refill * granted'[k]
    <3>4. x \in Nat /\ x <= y + (t - first'[k])
      BY <3>2, <3>3
    <3> HIDE DEF x
    <3>5. x <= y + (now - first'[k])
      BY <1>3, <2>0, <3>1, <3>2, <3>4
    <3> QED
      BY <2>0, <3>5 DEF x
  <2>2. CASE ~goes
    <3>1. Bucket(k) # {}
      <4>1. level # Full
        BY <1>1, <1>3, <2>2, FullFacts
      <4> QED
        BY <4>1, LevelFacts
    <3> QED
      BY <1>1, <2>2, <3>1 DEF Metered
  <2> QED
    BY <2>1, <2>2
<1>6. ASSUME NEW j \in Keys
      PROVE  /\ Bucket(j)' = {} => Refill * granted'[j] <= Full * forgotten'[j] - first'[j]
             /\ Bucket(j)' # {} =>
                  Refill * granted'[j] <= Full * (1 + forgotten'[j]) + (now - first'[j])
             /\ \A i \in Bucket(j)' :
                  Refill * granted'[j] + buckets'[i].level
                    <= Full * (1 + forgotten'[j]) + (buckets'[i].last - first'[j])
  <2>1. CASE j = k
    <3>1. \A i \in Bucket(k)' :
            Refill * granted'[k] + buckets'[i].level
              <= Full * (1 + forgotten'[k]) + (buckets'[i].last - first'[k])
      BY <1>1, <1>4
    <3>2. Bucket(k)' # {}
      BY <1>1
    <3> QED
      BY <1>5, <2>1, <3>1, <3>2
  <2>2. CASE j # k /\ Forgets(j)
    <3>1. /\ granted'[j] = granted[j] /\ forgotten'[j] = forgotten[j] + 1
          /\ first'[j] = first[j] - now
      BY <1>1, <2>2
    <3>2. /\ Bucket(j)' = {}
          /\ Refill * granted[j] <= Full * (1 + forgotten[j]) + (now - first[j])
      BY <2>2 DEF Forgets, Metered
    <3> DEFINE x == Refill * granted[j]  z == Full * (1 + forgotten[j])
    <3>3. /\ x \in Nat /\ z \in Nat /\ first[j] \in Int
          /\ Full * (forgotten[j] + 1) = z /\ x <= z + (now - first[j])
      BY <3>2, SumFacts
    <3> HIDE DEF x, z
    <3>4. x <= z - (first[j] - now)
      BY <1>3, <3>3
    <3> QED
      BY <3>1, <3>2, <3>3, <3>4 DEF x
  <2>3. CASE j # k /\ ~Forgets(j)
    <3>1. /\ granted'[j] = granted[j] /\ forgotten'[j] = forgotten[j]
          /\ first'[j] = first[j]
          /\ \A i \in Bucket(j)' : \E m \in Bucket(j) : buckets'[i] = buckets[m]
      BY <1>1, <2>3
    <3>2. Bucket(j)' = {} <=> Bucket(j) = {}
      BY <2>3, <3>1 DEF Forgets
    <3>3. Metered
      OBVIOUS
    <3> QED
      BY <3>1, <3>2, <3>3 DEF Metered
  <2> QED
    BY <2>1, <2>2, <2>3
<1> HIDE DEF G, F, level, l, y
<1>7. (\A j \in Keys :
        /\ Bucket(j) = {} => Refill * granted[j] <= Full * forgotten[j] - first[j]
        /\ Bucket(j) # {} =>
             Refill * granted[j] <= Full * (1 + forgotten[j]) + (now - first[j])
        /\ \A i \in Bucket(j) :
             Refill * granted[j] + buckets[i].level
               <= Full * (1 + forgotten[j]) + (buckets[i].last - first[j]))'
  BY <1>2, <1>6
<1> QED
  BY <1>7 DEF Metered

LEMMA MeteredStep == Typed /\ Metered /\ [Next]_vars => Metered'
<1> SUFFICES ASSUME Typed, Metered, [Next]_vars PROVE Metered'
  OBVIOUS
<1>1. CASE Aside
  BY <1>1, AsideMoves, MeteredStill
<1>2. ASSUME NEW r \in Requests, Admit(r) PROVE Metered'
  BY <1>2, MeteredAdmit
<1>3. ASSUME NEW r \in Requests, Arrive(r) PROVE Metered'
  BY <1>3, ArriveMoves, MeteredStill
<1>4. ASSUME NEW r \in Requests, Serve(r) PROVE Metered'
  BY <1>4, ServeMoves, MeteredStill
<1> QED
  BY <1>1, <1>2, <1>3, <1>4, DoorSteps

LEMMA MeteredHolds == Typed /\ Metered => RateHeld
<1> SUFFICES ASSUME Typed, Metered, NEW k \in Keys
             PROVE  Refill * granted[k] <= Full * (1 + forgotten[k]) + (now - first[k])
  BY DEF RateHeld
<1>1. CASE Bucket(k) # {}
  BY <1>1 DEF Metered
<1>2. CASE Bucket(k) = {}
  <2> DEFINE x == Refill * granted[k]  y == Full * (1 + forgotten[k])
             z == Full * forgotten[k]
  <2>1. /\ x \in Nat /\ z \in Nat /\ y = z + Full /\ Full \in Nat /\ now \in Nat
        /\ first[k] \in Int /\ x <= z - first[k]
    BY <1>2, SumFacts DEF Metered
  <2> HIDE DEF x, y, z
  <2>2. x <= y + (now - first[k])
    BY <2>1
  <2> QED
    BY <2>2 DEF x, y
<1> QED
  BY <1>1, <1>2

\* No caller is let through faster than the limit, in whatever order its
\* requests get the lock: its key has had at most a full bucket for each time
\* it was forgotten, one more, and what was earned while it was remembered.
THEOREM RateIsHeld == Spec => []RateHeld
<1>1. Init => Typed /\ Metered
  BY TypedInit, MeteredInit
<1>2. Typed /\ Metered /\ [Next]_vars => (Typed /\ Metered)'
  BY TypedStep, MeteredStep
<1> QED
  BY <1>1, <1>2, MeteredHolds, PTL DEF Spec

-----------------------------------------------------------------------------
(* Whose allowance is spent. *)

\* A bucket that is left with so little had the whole of one let through, but
\* for what it earned since one of those read the clock.
Spent(k, left, t) ==
  \E q \in Granted(k) : left + Refill * granted[k] + clock[q] >= Full + t

Counted ==
  /\ \A k \in Keys : IsFiniteSet(Granted(k)) /\ Cardinality(Granted(k)) = granted[k]
  /\ \A k \in Keys : \A i \in Bucket(k) : Spent(k, buckets[i].level, buckets[i].last)
  /\ \A r \in Requests : pc[r] \in {"new", "asks"} => outcome[r] = "none"
  /\ \A r \in Requests : outcome[r] = "limited" =>
       pc[r] = "done" /\ \E left \in Int : left < Refill /\ Spent(Key(ask[r]), left, clock[r])

LEMMA CountedInit == Init => Counted
<1> SUFFICES ASSUME Init PROVE Counted
  OBVIOUS
<1>1. ASSUME NEW k \in Keys PROVE IsFiniteSet(Granted(k)) /\ Cardinality(Granted(k)) = granted[k]
  <2>1. Granted(k) = {} /\ granted[k] = 0
    BY DEF Init, Granted
  <2> QED
    BY <2>1, FS_EmptySet
<1>2. \A r \in Requests : outcome[r] = "none"
  BY DEF Init
<1>3. \A k \in Keys : Bucket(k) = {}
  BY DEF Init, Bucket
<1> QED
  BY <1>1, <1>2, <1>3 DEF Counted

\* A bucket is spent for as long as its key is remembered, and what was spent
\* stays so, while requests only join those let through and keep their clocks.
LEMMA SpentStill ==
  ASSUME Typed, NEW k \in Keys, NEW left \in Int, NEW t \in Nat, Spent(k, left, t),
         Full' = Full, \A q \in Granted(k) : q \in Granted(k)' /\ clock'[q] = clock[q],
         granted'[k] = granted[k] \/ granted'[k] = granted[k] + 1
  PROVE  Spent(k, left, t)'
<1>1. PICK q \in Granted(k) : left + Refill * granted[k] + clock[q] >= Full + t
  BY DEF Spent
<1>2. q \in Requests /\ clock[q] \in Nat
  BY DEF Granted, Typed, TypeOK, RateTypes
<1>3. Refill * granted'[k] \in Nat /\ Refill * granted[k] <= Refill * granted'[k]
      /\ Refill * granted[k] \in Nat /\ Full \in Nat
  BY SumFacts
<1> DEFINE x == Refill * granted[k]  y == Refill * granted'[k]
<1>4. x \in Nat /\ y \in Nat /\ x <= y /\ left + x + clock[q] >= Full + t /\ Full \in Nat
  BY <1>1, <1>3
<1> HIDE DEF x, y
<1>5. left + y + clock[q] >= Full + t
  BY <1>2, <1>4
<1>6. left + Refill * granted'[k] + clock'[q] >= Full' + t
  BY <1>5 DEF y
<1>7. q \in Granted(k)'
  OBVIOUS
<1> QED
  BY <1>6, <1>7 DEF Spent

\* What a bucket is left with by one request more.
LEMMA SpentTaken ==
  ASSUME Typed, Counted, NEW k \in Keys, NEW t \in Nat, NEW goes \in BOOLEAN,
         goes <=> Level(k, t) >= Refill, NEW r \in Requests, clock[r] = t,
         UNCHANGED <<Full, clock>>,
         granted'[k] = IF goes THEN granted[k] + 1 ELSE granted[k],
         Granted(k)' = IF goes THEN Granted(k) \union {r} ELSE Granted(k),
         NEW l \in Int, l = IF goes THEN Level(k, t) - Refill ELSE Level(k, t)
  PROVE  Spent(k, l, t)'
<1> DEFINE level == Level(k, t)
           x == Refill * granted[k]  y == Refill * granted'[k]
<1>1. /\ level \in Int /\ Refill \in Nat /\ Full \in Nat /\ x \in Nat
      /\ y = IF goes THEN x + Refill ELSE x
  BY LevelFacts, SumFacts
<1>2. clock \in [Requests -> Nat]
  BY DEF Typed, TypeOK, RateTypes
<1>3. CASE level = Full
  <2>1. goes /\ r \in Granted(k)'
    BY <1>1, <1>3, FullFacts
  <2>2. l = Full - Refill /\ y = x + Refill
    BY <1>1, <1>3, <2>1
  <2> HIDE DEF level, x, y
  <2>3. l + y + clock'[r] >= Full + t
    BY <1>1, <2>2
  <2> QED
    BY <2>1, <2>3 DEF Spent, y
<1>4. CASE level # Full
  <2>1. PICK i : i \in Bucket(k)
    BY <1>4, LevelFacts
  <2> DEFINE a == buckets[i].level  b == buckets[i].last
  <2>2. a \in Int /\ b \in Nat /\ level = a + (t - b)
    BY <1>4, <2>1, LevelFacts, EntryFacts DEF Bucket
  <2>3. PICK q \in Granted(k) : a + x + clock[q] >= Full + b
    BY <2>1 DEF Counted, Spent
  <2>4. q \in Granted(k)' /\ clock'[q] = clock[q] /\ clock[q] \in Nat
    BY <1>2 DEF Granted
  <2>a. l = IF goes THEN level - Refill ELSE level
    OBVIOUS
  <2> HIDE DEF level, x, y, a, b
  <2>5. l + y + clock'[q] >= Full + t
    BY <1>1, <2>2, <2>3, <2>4, <2>a
  <2> QED
    BY <2>4, <2>5 DEF Spent, y
<1> QED
  BY <1>3, <1>4

LEMMA CountedAdmit ==
  ASSUME Typed, Counted, NEW r \in Requests, Admit(r) PROVE Counted'
<1>1. PICK goes \in BOOLEAN :
        LET k == Key(ask[r])
            to == IF goes THEN Route(ask[r]) ELSE <<"done", "limited">>
        IN
        /\ ask[r] \in Asks /\ pc[r] = "asks" /\ k \in Keys
        /\ goes <=> Level(k, clock[r]) >= Refill
        /\ granted' = [granted EXCEPT ![k] = IF goes THEN granted[k] + 1 ELSE granted[k]]
        /\ pc' = [pc EXCEPT ![r] = to[1]] /\ outcome' = [outcome EXCEPT ![r] = to[2]]
  BY AdmitFacts
<1>2. /\ Route(ask[r])[1] \notin {"new", "asks"}
      /\ Route(ask[r])[2] # "limited"
  BY <1>1, KeyFacts
<1>3. /\ pc \in [Requests -> Places] /\ outcome \in [Requests -> Outcomes]
      /\ granted \in [Keys -> Nat] /\ clock \in [Requests -> Nat]
  BY DEF Typed, TypeOK, RequestTypes, RateTypes
<1>4. ask' = ask /\ Full' = Full /\ clock' = clock
  BY DEF Admit, ask, Full, PerMinute
<1>5. PICK k \in Keys, t \in Nat : k = Key(ask[r]) /\ t = clock[r]
  BY <1>1, <1>3
<1>6. /\ pc'[r] \notin {"new", "asks"}
      /\ outcome'[r] = "limited" <=> ~goes
      /\ ~goes => pc'[r] = "done"
      /\ \A q \in Requests \ {r} : pc'[q] = pc[q] /\ outcome'[q] = outcome[q]
  <2>1. CASE goes
    BY <1>1, <1>2, <1>3, <2>1
  <2>2. CASE ~goes
    BY <1>1, <1>3, <2>2
  <2> QED
    BY <2>1, <2>2
<1>7. /\ granted'[k] = IF goes THEN granted[k] + 1 ELSE granted[k]
      /\ \A j \in Keys \ {k} : granted'[j] = granted[j]
  BY <1>1, <1>3, <1>5
<1>8. /\ Granted(k)' = IF goes THEN Granted(k) \union {r} ELSE Granted(k)
      /\ \A j \in Keys \ {k} : Granted(j)' = Granted(j)
      /\ \A j \in Keys : r \notin Granted(j)
  BY <1>1, <1>4, <1>5, <1>6 DEF Granted
<1>9. ASSUME NEW j \in Keys
      PROVE  IsFiniteSet(Granted(j)') /\ Cardinality(Granted(j)') = granted'[j]
  <2>0. /\ IsFiniteSet(Granted(j)) /\ Cardinality(Granted(j)) = granted[j]
        /\ granted[j] \in Nat /\ r \notin Granted(j)
    BY <1>3, <1>8 DEF Counted
  <2>1. CASE j = k /\ goes
    <3>1. IsFiniteSet(Granted(j) \union {r}) /\ Cardinality(Granted(j) \union {r}) = granted[j] + 1
      BY <2>0, FS_AddElement
    <3> QED
      BY <1>7, <1>8, <2>1, <3>1
  <2>2. CASE ~(j = k /\ goes)
    BY <1>7, <1>8, <2>0, <2>2
  <2> QED
    BY <2>1, <2>2
<1>a. PICK l \in Int : l = IF goes THEN Level(k, t) - Refill ELSE Level(k, t)
  BY LevelFacts, SumFacts
<1>10. Spent(k, l, t)'
  <2>1. goes <=> Level(k, t) >= Refill
    BY <1>1, <1>5
  <2> QED
    BY <1>4, <1>5, <1>7, <1>8, <1>a, <2>1, SpentTaken
<1>11. ASSUME NEW j \in Keys, NEW left \in Int, NEW u \in Nat, Spent(j, left, u)
       PROVE  Spent(j, left, u)'
  <2>1. \A q \in Granted(j) : q \in Granted(j)' /\ clock'[q] = clock[q]
    BY <1>4, <1>8
  <2>2. granted'[j] = granted[j] \/ granted'[j] = granted[j] + 1
    BY <1>7
  <2> QED
    BY <1>4, <1>11, <2>1, <2>2, SpentStill
<1>12. ASSUME NEW j \in Keys, NEW i \in Bucket(j)'
       PROVE  \E left \in Int, u \in Nat :
                left = buckets'[i].level /\ u = buckets'[i].last /\ Spent(j, left, u)'
  <2>1. /\ \A n \in Bucket(k)' : buckets'[n].level = l /\ buckets'[n].last = t
        /\ \A h \in Keys \ {k} :
             \A n \in Bucket(h)' : \E m \in Bucket(h) : buckets'[n] = buckets[m]
    <3>1. PICK h \in Keys, u \in Nat, went \in BOOLEAN :
            /\ h = Key(ask[r]) /\ u = clock[r]
            /\ went <=> Level(h, u) >= Refill
            /\ \A n \in Bucket(h)' :
                 /\ buckets'[n].level = IF went THEN Level(h, u) - Refill ELSE Level(h, u)
                 /\ buckets'[n].last = u
            /\ \A f \in Keys \ {h} :
                 \A n \in Bucket(f)' : \E m \in Bucket(f) : buckets'[n] = buckets[m]
      BY TakeFacts
    <3>2. h = k /\ u = t
      BY <1>5, <3>1
    <3>3. went = goes
      BY <1>1, <1>5, <3>1, <3>2
    <3> QED
      BY <1>a, <3>1, <3>2, <3>3
  <2>2. CASE j = k
    <3>1. buckets'[i].level = l /\ buckets'[i].last = t
      BY <1>12, <2>1, <2>2
    <3> QED
      BY <1>10, <2>2, <3>1
  <2>3. CASE j # k
    <3>1. PICK m \in Bucket(j) : buckets'[i] = buckets[m]
      BY <1>12, <2>1, <2>3
    <3>2. PICK left \in Int, u \in Nat : left = buckets[m].level /\ u = buckets[m].last
      BY EntryFacts DEF Bucket
    <3>3. Spent(j, left, u)
      BY <3>2 DEF Counted
    <3>4. Spent(j, left, u)'
      BY <1>11, <3>3
    <3> QED
      BY <3>1, <3>2, <3>4
  <2> QED
    BY <2>2, <2>3
<1>b. \A j \in Keys : \A i \in Bucket(j)' : Spent(j, buckets[i].level, buckets[i].last)'
  <2> TAKE j \in Keys
  <2> TAKE i \in Bucket(j)'
  <2>1. PICK left \in Int, u \in Nat :
          left = buckets'[i].level /\ u = buckets'[i].last /\ Spent(j, left, u)'
    BY <1>12
  <2> QED
    BY <2>1 DEF Spent
<1>13. ASSUME NEW q \in Requests, outcome'[q] = "limited"
       PROVE  pc'[q] = "done" /\ \E left \in Int : left < Refill /\ Spent(Key(ask[q]), left, clock[q])'
  <2>1. CASE q = r
    <3>1. ~goes
      BY <1>6, <1>13, <2>1
    <3>2. l \in Int /\ Refill \in Nat /\ l < Refill
      BY <1>1, <1>5, <1>a, <3>1, LevelFacts, SumFacts
    <3> QED
      BY <1>4, <1>5, <1>6, <1>10, <2>1, <3>1, <3>2
  <2>2. CASE q # r
    <3>1. pc'[q] = "done" /\ pc[q] = "done" /\ outcome[q] = "limited"
      BY <1>6, <1>13, <2>2 DEF Counted
    <3>2. PICK left \in Int : left < Refill /\ Spent(Key(ask[q]), left, clock[q])
      BY <3>1 DEF Counted
    <3>3. PICK j \in Keys, u \in Nat : j = Key(ask[q]) /\ u = clock[q]
      BY <1>3, <3>1, KeyFacts DEF Typed, Asked
    <3>4. Spent(j, left, u)'
      BY <1>11, <3>2, <3>3
    <3> QED
      BY <1>4, <3>1, <3>2, <3>3, <3>4
  <2> QED
    BY <2>1, <2>2
<1>14. \A q \in Requests : pc'[q] \in {"new", "asks"} => outcome'[q] = "none"
  BY <1>6 DEF Counted
<1> QED
  BY <1>4, <1>9, <1>b, <1>13, <1>14 DEF Counted

\* What joins nothing to those let through, and tells none another time.
LEMMA CountedStill ==
  ASSUME Typed, Counted, UNCHANGED <<scene, buckets, granted>>,
         \A k \in Keys : Granted(k)' = Granted(k),
         \A q \in Requests : pc[q] \notin {"new", "asks"} => clock'[q] = clock[q],
         \A q \in Requests : /\ pc'[q] \in {"new", "asks"} => outcome'[q] = "none"
                             /\ outcome'[q] = "limited" =>
                                  outcome[q] = "limited" /\ pc'[q] = pc[q]
  PROVE  Counted'
<1>1. Full' = Full /\ ask' = ask /\ \A k \in Keys : Bucket(k)' = Bucket(k)
  BY DEF Full, PerMinute, ask, Bucket
<1>2. \A k \in Keys : \A q \in Granted(k) : q \in Granted(k)' /\ clock'[q] = clock[q]
  BY DEF Granted
<1>3. ASSUME NEW k \in Keys, NEW i \in Bucket(k)
      PROVE  Spent(k, buckets[i].level, buckets[i].last)'
  <2>1. buckets[i].level \in Int /\ buckets[i].last \in Nat
    BY EntryFacts DEF Bucket
  <2>2. Spent(k, buckets[i].level, buckets[i].last)
    BY DEF Counted
  <2>3. PICK left \in Int, t \in Nat : left = buckets[i].level /\ t = buckets[i].last
    BY <2>1
  <2>4. Spent(k, left, t)'
    BY <1>1, <1>2, <2>2, <2>3, SpentStill
  <2> QED
    BY <2>3, <2>4
<1>4. ASSUME NEW q \in Requests, outcome'[q] = "limited"
      PROVE  pc'[q] = "done" /\ \E left \in Int : left < Refill /\ Spent(Key(ask[q]), left, clock[q])'
  <2>1. pc'[q] = "done" /\ pc[q] = "done" /\ outcome[q] = "limited"
    BY <1>4 DEF Counted
  <2>2. PICK left \in Int : left < Refill /\ Spent(Key(ask[q]), left, clock[q])
    BY <2>1 DEF Counted
  <2>3. Key(ask[q]) \in Keys /\ clock[q] \in Nat
    BY <2>1, KeyFacts DEF Typed, Asked, TypeOK, RateTypes
  <2>4. PICK j \in Keys, u \in Nat : j = Key(ask[q]) /\ u = clock[q]
    BY <2>3
  <2>5. Spent(j, left, u)'
    BY <1>1, <1>2, <2>2, <2>4, SpentStill
  <2> QED
    BY <1>1, <2>1, <2>2, <2>4, <2>5
<1> QED
  BY <1>1, <1>3, <1>4 DEF Counted

LEMMA CountedStep == Typed /\ Counted /\ [Next]_vars => Counted'
<1> SUFFICES ASSUME Typed, Counted, [Next]_vars PROVE Counted'
  OBVIOUS
<1>0. pc \in [Requests -> Places] /\ outcome \in [Requests -> Outcomes]
      /\ clock \in [Requests -> Nat]
  BY DEF Typed, TypeOK, RequestTypes, RateTypes
<1>1. CASE Aside
  <2>1. UNCHANGED <<scene, reqVars, rateVars>>
    BY <1>1, AsideMoves
  <2>2. \A k \in Keys : Granted(k)' = Granted(k)
    BY <2>1 DEF Granted, ask
  <2>3. \A q \in Requests : pc[q] \in {"new", "asks"} => outcome[q] = "none"
    BY DEF Counted
  <2> QED
    BY <2>1, <2>2, <2>3, CountedStill
<1>2. ASSUME NEW r \in Requests, Admit(r) PROVE Counted'
  BY <1>2, CountedAdmit
<1>3. ASSUME NEW r \in Requests, Arrive(r) PROVE Counted'
  <2>1. /\ UNCHANGED <<scene, buckets, granted, outcome>> /\ pc[r] = "new"
        /\ \A q \in Requests \ {r} : pc'[q] = pc[q] /\ clock'[q] = clock[q]
        /\ pc'[r] = "asks" /\ ask' = ask
    BY <1>0, <1>3, ArriveMoves DEF ask
  <2>2. \A k \in Keys : Granted(k)' = Granted(k)
    BY <2>1 DEF Granted
  <2>3. /\ \A q \in Requests : pc[q] \in {"new", "asks"} => outcome[q] = "none"
        /\ outcome[r] # "limited"
    BY <2>1 DEF Counted
  <2> QED
    BY <2>1, <2>2, <2>3, CountedStill
<1>4. ASSUME NEW r \in Requests, Serve(r) PROVE Counted'
  <2>1. /\ UNCHANGED <<scene, rateVars>> /\ pc[r] \notin {"new", "asks", "done"}
        /\ \E to \in Places \ {"new", "asks"} : pc' = [pc EXCEPT ![r] = to]
        /\ outcome' = outcome \/ \E how \in {"ok", "not_ok", "closed", "cut"} :
                                   outcome' = [outcome EXCEPT ![r] = how]
    BY <1>4, ServeMoves
  <2>2. /\ \A q \in Requests \ {r} : pc'[q] = pc[q] /\ outcome'[q] = outcome[q]
        /\ pc'[r] \notin {"new", "asks"} /\ outcome'[r] # "limited"
        /\ outcome[r] # "limited" /\ ask' = ask
    BY <1>0, <2>1 DEF Counted, ask
  <2>3. \A k \in Keys : Granted(k)' = Granted(k)
    BY <2>1, <2>2 DEF Granted
  <2>4. \A q \in Requests : pc[q] \in {"new", "asks"} => outcome[q] = "none"
    BY DEF Counted
  <2> QED
    BY <2>1, <2>2, <2>3, <2>4, CountedStill
<1> QED
  BY <1>1, <1>2, <1>3, <1>4, DoorSteps

LEMMA CountedHolds == Typed /\ Counted => OwnAllowance
<1> SUFFICES ASSUME Typed, Counted, NEW r \in Requests, outcome[r] = "limited"
             PROVE  \E q \in LetThrough(r) :
                      Refill * (Cardinality(LetThrough(r)) + 1)
                        > Full + (clock[r] - clock[q])
  BY DEF OwnAllowance
<1>1. PICK left \in Int : /\ pc[r] = "done" /\ left < Refill
                          /\ Spent(Key(ask[r]), left, clock[r])
  BY DEF Counted
<1>2. \A q \in Requests : pc[q] # "new" => ask[q] \in Asks
  BY DEF Typed, Asked
<1>3. \A q \in Requests : pc[q] # "new" =>
        (Key(ask[q]) = Key(ask[r]) <=> /\ ask[q].bearer = ask[r].bearer
                                       /\ ask[r].bearer \/ ask[q].from = ask[r].from)
  BY <1>1, <1>2, NamesAssumption DEF Key, Asks
<1>4. PICK k \in Keys : k = Key(ask[r])
  BY <1>1, <1>2, KeyFacts
<1>5. Granted(k) = LetThrough(r)
  BY <1>3, <1>4 DEF Granted, LetThrough
<1>6. Cardinality(LetThrough(r)) = granted[k]
  BY <1>5 DEF Counted
<1>7. PICK q \in Granted(k) : left + Refill * granted[k] + clock[q] >= Full + clock[r]
  BY <1>1, <1>4 DEF Spent
<1>8. clock[q] \in Nat /\ clock[r] \in Nat
  BY DEF Granted, Typed, TypeOK, RateTypes
<1> DEFINE x == Refill * granted[k]
<1>9. /\ x \in Nat /\ Refill \in Nat /\ Full \in Nat
      /\ Refill * (granted[k] + 1) = x + Refill /\ left + x + clock[q] >= Full + clock[r]
  BY <1>7, SumFacts
<1> HIDE DEF x
<1>10. Refill * (granted[k] + 1) > Full + (clock[r] - clock[q])
  BY <1>1, <1>8, <1>9
<1> QED
  BY <1>5, <1>6, <1>10

\* Whoever is told to wait had a bucket's worth of requests let through that
\* spent the allowance it spends, but for what was earned since one of them
\* read the clock: nobody else can spend it.
THEOREM AllowanceIsOwn == Spec => []OwnAllowance
<1>1. Init => Typed /\ Counted
  BY TypedInit, CountedInit
<1>2. Typed /\ Counted /\ [Next]_vars => (Typed /\ Counted)'
  BY TypedStep, CountedStep
<1> QED
  BY <1>1, <1>2, CountedHolds, PTL DEF Spec

-----------------------------------------------------------------------------
(* The registry. *)

\* A request has a pool from the time it is given one, and the pool its name.
Placed ==
  /\ \A r \in Requests : pc[r] \in {"new", "asks", "pool"} => pool[r] = None
  /\ \A r, q \in Requests : pool[q] = r => pc[r] \notin {"new", "asks", "pool"}

Registered ==
  /\ \A i \in DOMAIN registry : registry[i].pool \in Requests /\ Made(registry[i].pool)
  /\ \A i, j \in DOMAIN registry : registry[i].pool = registry[j].pool => i = j

\* A pool that a request closes is not in the registry any more.
Evicted ==
  \A r \in Requests : pc[r] \in Evicting =>
    /\ stale[r] \in Requests /\ Made(stale[r])
    /\ \A i \in DOMAIN registry : registry[i].pool # stale[r]
    /\ pc[r] # "evict" => shut[stale[r]]

\* Nobody closes a pool before the door stops, or after its exit handlers.
\* While the door stands, the pools in the registry are open.
Calm == {"open", "stopping", "exit", "leaving", "exited"}
Standing ==
  /\ \A p \in Pools : shut[p] \/ p \in toClose => Made(p)
  /\ main \in Calm => toClose = {} /\ closing = None
  /\ main = "open" => ~shut[Checker] /\ \A i \in DOMAIN registry : ~shut[registry[i].pool]

Lined == Placed /\ Registered /\ Evicted /\ Standing /\ PoolsBounded

LEMMA LinedInit == Init => Lined
<1> SUFFICES ASSUME Init PROVE Lined
  OBVIOUS
<1>1. /\ \A r \in Requests : pool[r] = None /\ pc[r] = "new"
      /\ registry = <<>> /\ toClose = {} /\ closing = None
      /\ \A p \in Pools : ~shut[p]
  BY DEF Init
<1>2. Placed
  BY <1>1, NamesAssumption DEF Placed
<1>3. Registered /\ Evicted
  BY <1>1 DEF Registered, Evicted, Evicting
<1>4. Standing
  BY <1>1 DEF Standing, Pools
<1>5. PoolsBounded
  <2>1. Len(registry) <= Keep
    BY <1>1, SizesAssumption
  <2>2. \A p \in Requests : ~Made(p)
    BY <1>1, NamesAssumption DEF Made
  <2> QED
    BY <2>1, <2>2 DEF PoolsBounded
<1> QED
  BY <1>2, <1>3, <1>4, <1>5 DEF Lined

\* What changes neither the registry nor the closing of a pool.
LEMMA LinedStill ==
  ASSUME Lined, UNCHANGED <<pool, stale, registry, shut>>,
         toClose' = toClose \/ toClose \subseteq toClose',
         \A p \in toClose' : p \in toClose \/ Made(p),
         main' \in Calm => toClose' = {} /\ closing' = None,
         main' = "open" => main = "open",
         \A q \in Requests : pc'[q] \in {"new", "asks", "pool"} => pc[q] \in {"new", "asks", "pool"},
         \A q \in Requests : pc[q] \in {"new", "asks", "pool"} => pc'[q] \in {"new", "asks", "pool"},
         \A q \in Requests : (pc'[q] = "evict") = (pc[q] = "evict"),
         \A q \in Requests : pc'[q] \in {"drain", "kill"} => pc[q] \in {"drain", "kill"}
  PROVE  Lined'
<1>1. \A p : Made(p)' = Made(p)
  BY DEF Made
<1>2. Placed'
  BY DEF Lined, Placed
<1>3. Registered'
  BY <1>1 DEF Lined, Registered
<1>4. Evicted'
  <2> SUFFICES ASSUME NEW r \in Requests, pc'[r] \in Evicting
               PROVE  /\ stale[r] \in Requests /\ Made(stale[r])
                      /\ \A i \in DOMAIN registry : registry[i].pool # stale[r]
                      /\ pc'[r] # "evict" => shut[stale[r]]
    BY <1>1 DEF Evicted
  <2>1. pc[r] \in Evicting /\ (pc'[r] # "evict" => pc[r] # "evict")
    BY DEF Evicting
  <2> QED
    BY <2>1 DEF Lined, Evicted
<1>5. Standing'
  <2>1. \A p \in Pools : shut[p] \/ p \in toClose' => Made(p)
    BY DEF Lined, Standing
  <2>3. main' = "open" => ~shut[Checker] /\ \A i \in DOMAIN registry : ~shut[registry[i].pool]
    BY DEF Lined, Standing
  <2> QED
    BY <1>1, <2>1, <2>3 DEF Standing
<1>6. PoolsBounded'
  <2> SUFFICES ASSUME NEW p \in Requests, Made(p), ~shut[p]
               PROVE  \/ \E i \in DOMAIN registry : registry[i].pool = p
                      \/ \E r \in Requests : pc'[r] = "evict" /\ stale[r] = p
                      \/ p \in toClose'
    BY <1>1 DEF Lined, PoolsBounded
  <2>1. \/ \E i \in DOMAIN registry : registry[i].pool = p
        \/ \E r \in Requests : pc[r] = "evict" /\ stale[r] = p
        \/ p \in toClose
    BY DEF Lined, PoolsBounded
  <2> QED
    BY <2>1
<1> QED
  BY <1>2, <1>3, <1>4, <1>5, <1>6 DEF Lined

LEMMA LinedAdmit == ASSUME Typed, Lined, NEW r \in Requests, Admit(r) PROVE Lined'
<1>1. PICK to \in {"done", "use", "pool"} :
        /\ pc[r] = "asks" /\ pc' = [pc EXCEPT ![r] = to]
        /\ pool' = [pool EXCEPT ![r] = IF to = "use" THEN Checker ELSE None]
  <2>1. PICK goes \in BOOLEAN :
          LET to == IF goes THEN Route(ask[r]) ELSE <<"done", "limited">> IN
          /\ ask[r] \in Asks /\ pc[r] = "asks" /\ pc' = [pc EXCEPT ![r] = to[1]]
          /\ pool' = [pool EXCEPT ![r] = IF to[1] = "use" THEN Checker ELSE None]
    BY AdmitFacts
  <2>2. Route(ask[r])[1] \in {"done", "use", "pool"}
    BY <2>1, KeyFacts
  <2>3. CASE goes
    BY <2>1, <2>2, <2>3
  <2>4. CASE ~goes
    BY <2>1, <2>4
  <2> QED
    BY <2>3, <2>4
<1>2. UNCHANGED <<stale, registry, shut, toClose, closing, main>>
  BY DEF Admit
<1>3. pc \in [Requests -> Places] /\ pool \in [Requests -> Pools \union {None}]
  BY DEF Typed, TypeOK, RequestTypes
<1>4. /\ pool[r] = None /\ pool'[r] \in {Checker, None}
      /\ pc'[r] = "pool" => pool'[r] = None
      /\ pc'[r] \in {"done", "use", "pool"}
      /\ \A q \in Requests \ {r} : pool'[q] = pool[q] /\ pc'[q] = pc[q]
  BY <1>1, <1>3 DEF Lined, Placed
<1>5. \A p \in Pools : Made(p) => Made(p)'
  BY <1>4, NamesAssumption DEF Made, Pools
<1>6. \A p \in Requests : Made(p)' => Made(p)
  BY <1>4, NamesAssumption DEF Made
<1>7. Placed'
  BY <1>1, <1>4, NamesAssumption DEF Lined, Placed
<1>8. Registered'
  BY <1>2, <1>5 DEF Lined, Registered, Pools
<1>9. Evicted'
  BY <1>2, <1>4, <1>5 DEF Lined, Evicted, Evicting, Pools
<1>10. Standing'
  BY <1>2, <1>5 DEF Lined, Standing
<1>11. PoolsBounded'
  <2>1. \A q \in Requests : pc[q] = "evict" => pc'[q] = "evict"
    BY <1>1, <1>4
  <2> QED
    BY <1>2, <1>6, <2>1 DEF Lined, PoolsBounded
<1> QED
  BY <1>7, <1>8, <1>9, <1>10, <1>11 DEF Lined

\* How the registry that is left lies in the order of last use: all of it, or
\* all but the first, whose pool the request has to close.
LEMMA GiveOrder ==
  ASSUME Typed, NEW r \in Requests, GivePool(r)
  PROVE  \E p \in Pools, order \in Seq(Entries), d \in {0, 1} :
           LET b == ask[r].budget
               at == {i \in DOMAIN registry : registry[i].budget = b}
           IN
           /\ b \in Budgets /\ pc[r] = "pool"
           /\ \/ p = r /\ \A i \in at : shut[registry[i].pool]
              \/ ~shut[p] /\ \E i \in at : registry[i].pool = p
           /\ Len(order) \in Nat \ {0} /\ Len(order) <= Len(registry) + 1
           /\ DOMAIN order = 1..Len(order)
           /\ order[Len(order)] = Entry(b, p) /\ Rest0(registry, at, order)
           /\ d = 1 <=> Len(order) > Keep
           /\ DOMAIN registry' = 1..(Len(order) - d) /\ Len(registry') = Len(order) - d
           /\ \A i \in DOMAIN registry' : i + d \in DOMAIN order /\ registry'[i] = order[i + d]
           /\ pool' = [pool EXCEPT ![r] = p]
           /\ d = 1 => stale' = [stale EXCEPT ![r] = order[1].pool]
           /\ d = 0 => stale' = [stale EXCEPT ![r] = None]
           /\ pc' = [pc EXCEPT ![r] = IF d = 1 THEN "evict" ELSE "use"]
<1>1. PICK p \in Pools, order \in Seq(Entries) :
           LET b == ask[r].budget
               at == {i \in DOMAIN registry : registry[i].budget = b}
               goes == Len(order) > Keep
           IN
           /\ b \in Budgets /\ pc[r] = "pool" /\ Threads
           /\ \/ p = r /\ \A i \in at : shut[registry[i].pool]
              \/ ~shut[p] /\ \E i \in at : registry[i].pool = p
           /\ Len(order) \in 1..(Len(registry) + 1)
           /\ order[Len(order)] = Entry(b, p) /\ Rest0(registry, at, order)
           /\ pool' = [pool EXCEPT ![r] = p]
           /\ registry' = (IF goes THEN Tail(order) ELSE order)
           /\ goes => stale' = [stale EXCEPT ![r] = order[1].pool]
           /\ ~goes => stale' = [stale EXCEPT ![r] = None]
           /\ pc' = [pc EXCEPT ![r] = IF goes THEN "evict" ELSE "use"]
  BY GivePoolFacts
<1> DEFINE d == IF Len(order) > Keep THEN 1 ELSE 0
<1>2. /\ Len(order) \in Nat \ {0} /\ Len(order) <= Len(registry) + 1
      /\ DOMAIN order = 1..Len(order) /\ order \in Seq(Entries)
  <2>1. Len(registry) \in Nat
    BY EntryFacts
  <2> QED
    BY <1>1, <2>1
<1>3. d \in {0, 1} /\ (d = 1 <=> Len(order) > Keep)
  OBVIOUS
<1>4. /\ DOMAIN registry' = 1..(Len(order) - d) /\ Len(registry') = Len(order) - d
      /\ \A i \in DOMAIN registry' : i + d \in DOMAIN order /\ registry'[i] = order[i + d]
  <2>1. CASE Len(order) > Keep
    <3>1. registry' = Tail(order)
      BY <1>1, <2>1
    <3> QED
      BY <1>2, <2>1, <3>1
  <2>2. CASE ~(Len(order) > Keep)
    <3>1. registry' = order
      BY <1>1, <2>2
    <3> QED
      BY <1>2, <2>2, <3>1
  <2> QED
    BY <2>1, <2>2
<1> HIDE DEF d
<1>5. /\ d = 1 => stale' = [stale EXCEPT ![r] = order[1].pool]
      /\ d = 0 => stale' = [stale EXCEPT ![r] = None]
      /\ pc' = [pc EXCEPT ![r] = IF d = 1 THEN "evict" ELSE "use"]
  <2>1. CASE d = 1
    BY <1>1, <1>3, <2>1
  <2>2. CASE d = 0
    BY <1>1, <1>3, <2>2
  <2> QED
    BY <1>3, <2>1, <2>2
<1> QED
  BY <1>1, <1>2, <1>3, <1>4, <1>5, ZenonT(40)

LEMMA LinedGive == ASSUME Typed, Lined, NEW r \in Requests, GivePool(r) PROVE Lined'
<1> DEFINE b == ask[r].budget
           at == {i \in DOMAIN registry : registry[i].budget = b}
<1>1. PICK p \in Pools, order \in Seq(Entries), d \in {0, 1} :
           /\ b \in Budgets /\ pc[r] = "pool"
           /\ \/ p = r /\ \A i \in at : shut[registry[i].pool]
              \/ ~shut[p] /\ \E i \in at : registry[i].pool = p
           /\ Len(order) \in Nat \ {0} /\ Len(order) <= Len(registry) + 1
           /\ DOMAIN order = 1..Len(order)
           /\ order[Len(order)] = Entry(b, p) /\ Rest0(registry, at, order)
           /\ d = 1 <=> Len(order) > Keep
           /\ DOMAIN registry' = 1..(Len(order) - d) /\ Len(registry') = Len(order) - d
           /\ \A i \in DOMAIN registry' : i + d \in DOMAIN order /\ registry'[i] = order[i + d]
           /\ pool' = [pool EXCEPT ![r] = p]
           /\ d = 1 => stale' = [stale EXCEPT ![r] = order[1].pool]
           /\ d = 0 => stale' = [stale EXCEPT ![r] = None]
           /\ pc' = [pc EXCEPT ![r] = IF d = 1 THEN "evict" ELSE "use"]
  BY GiveOrder
<1>2. PICK g \in [1..(Len(order) - 1) -> (DOMAIN registry) \ at] :
        /\ \A n \in 1..(Len(order) - 1) : order[n] = registry[g[n]]
        /\ \A m \in (DOMAIN registry) \ at : \E n \in 1..(Len(order) - 1) : g[n] = m
        /\ \A n, m \in 1..(Len(order) - 1) : n < m => g[n] < g[m]
  BY <1>1 DEF Rest0
<1>3. UNCHANGED <<shut, toClose, closing, main>>
  BY DEF GivePool
<1>4. /\ pc \in [Requests -> Places] /\ pool \in [Requests -> Pools \union {None}]
      /\ stale \in [Requests -> Pools \union {None}] /\ Keep \in Nat \ {0}
      /\ Len(registry) \in Nat /\ DOMAIN registry \subseteq Nat
      /\ registry \in Seq(Entries)
  BY SceneFacts, EntryFacts DEF Typed, TypeOK, RequestTypes
<1>5. /\ pool[r] = None /\ pool'[r] = p
      /\ \A q \in Requests \ {r} : pool'[q] = pool[q] /\ pc'[q] = pc[q] /\ stale'[q] = stale[q]
      /\ pc'[r] = (IF d = 1 THEN "evict" ELSE "use")
      /\ d = 1 => stale'[r] = order[1].pool
  <2>1. pool[r] = None
    BY <1>1 DEF Lined, Placed
  <2>2. \A q \in Requests \ {r} : stale'[q] = stale[q]
    BY <1>1, <1>4
  <2> QED
    BY <1>1, <1>4, <2>1, <2>2
<1>b. order[Len(order)].pool = p /\ Len(order) \in DOMAIN order
  BY <1>1 DEF Entry
<1> HIDE DEF b
<1>6. /\ p \in Requests
      /\ p = r \/ Made(p)
      /\ ~Made(r) /\ ~shut[p]
  <2>1. ~Made(r)
    BY <1>1, NamesAssumption DEF Made, Lined, Placed
  <2>2. r \in Pools /\ ~shut[r]
    BY <2>1 DEF Lined, Standing, Pools
  <2> QED
    BY <1>1, <2>1, <2>2 DEF Lined, Registered
<1> DEFINE Named(x) == x = Checker \/ \E q \in Requests : pool'[q] = x
<1>7. /\ \A x \in Pools : Made(x) => Named(x)
      /\ \A x \in Pools : Named(x) => Made(x) \/ x = p
      /\ Named(p)
  <2>1. Named(p)
    BY <1>5
  <2>2. \A x \in Pools : Named(x) => Made(x) \/ x = p
    BY <1>5 DEF Made
  <2>3. \A x \in Pools : Made(x) => Named(x)
    BY <1>5, NamesAssumption DEF Made, Pools
  <2> QED
    BY <2>1, <2>2, <2>3
<1>8. \A n \in 1..(Len(order) - 1) :
        /\ g[n] \in DOMAIN registry /\ g[n] \notin at /\ order[n] = registry[g[n]]
        /\ g[n] \in Nat
  BY <1>2, <1>4
<1>9. \A n \in DOMAIN order : n \in 1..(Len(order) - 1) \/ n = Len(order)
  BY <1>1
<1>10. \A n \in DOMAIN order : order[n].pool \in Requests /\ (order[n].pool = p \/ Made(order[n].pool))
  BY <1>1, <1>6, <1>8, <1>9 DEF Entry, Lined, Registered
<1>11. \A n, m \in DOMAIN order : order[n].pool = order[m].pool => n = m
  <2> SUFFICES ASSUME NEW n \in DOMAIN order, NEW m \in DOMAIN order, n < m,
                      order[n].pool = order[m].pool
               PROVE  FALSE
    BY <1>1
  <2>1. n \in 1..(Len(order) - 1)
    BY <1>1
  <2>2. CASE m = Len(order)
    <3>1. registry[g[n]].pool = p
      BY <1>8, <1>b, <2>1, <2>2
    <3>2. Made(p)
      BY <1>8, <2>1, <3>1 DEF Lined, Registered
    <3>3. PICK i \in at : registry[i].pool = p
      BY <1>1, <1>6, <3>2
    <3>4. g[n] = i
      BY <1>8, <2>1, <3>1, <3>3 DEF Lined, Registered
    <3> QED
      BY <1>8, <2>1, <3>4
  <2>3. CASE m \in 1..(Len(order) - 1)
    <3>1. g[n] = g[m]
      BY <1>8, <2>1, <2>3 DEF Lined, Registered
    <3>2. g[n] < g[m]
      BY <1>2, <2>1, <2>3
    <3> QED
      BY <1>8, <2>1, <3>1, <3>2
  <2> QED
    BY <1>9, <2>2, <2>3
<1>12. Placed'
  <2>1. \A x, q \in Requests : pool'[q] = x => pc'[x] \notin {"new", "asks", "pool"}
    <3> TAKE x, q \in Requests
    <3> HAVE pool'[q] = x
    <3>1. CASE x = r
      BY <1>5, <3>1
    <3>2. CASE x # r
      <4>1. Made(x)
        BY <1>5, <1>6, <3>2 DEF Made
      <4> QED
        BY <1>5, <3>2, <4>1, NamesAssumption DEF Made, Lined, Placed
    <3> QED
      BY <3>1, <3>2
  <2>2. \A q \in Requests : pc'[q] \in {"new", "asks", "pool"} => pool'[q] = None
    BY <1>5 DEF Lined, Placed
  <2> QED
    BY <2>1, <2>2 DEF Placed
<1>13. Registered'
  <2>1. \A i \in DOMAIN registry' : registry'[i].pool \in Requests /\ Named(registry'[i].pool)
    <3> HIDE DEF Named
    <3> QED
      BY <1>1, <1>7, <1>10 DEF Pools
  <2>2. \A i, j \in DOMAIN registry' : registry'[i].pool = registry'[j].pool => i = j
    <3> TAKE i, j \in DOMAIN registry'
    <3>1. i + d = j + d => i = j
      BY <1>1
    <3> QED
      BY <1>1, <1>11, <3>1
  <2> QED
    BY <2>1, <2>2 DEF Registered, Made
<1>14. Evicted'
  <2> SUFFICES ASSUME NEW q \in Requests, pc'[q] \in Evicting
               PROVE  /\ stale'[q] \in Requests /\ Named(stale'[q])
                      /\ \A i \in DOMAIN registry' : registry'[i].pool # stale'[q]
                      /\ pc'[q] # "evict" => shut[stale'[q]]
    BY <1>3 DEF Evicted, Made
  <2> HIDE DEF Named
  <2>1. CASE q = r
    <3>1. d = 1 /\ stale'[q] = order[1].pool /\ pc'[q] = "evict"
      BY <1>5, <2>1 DEF Evicting
    <3>2. 1 \in DOMAIN order
      BY <1>1
    <3>3. \A i \in DOMAIN registry' : i + d # 1
      BY <1>1, <3>1
    <3>4. \A i \in DOMAIN registry' : registry'[i].pool # stale'[q]
      BY <1>1, <1>11, <3>1, <3>2, <3>3
    <3>5. order[1].pool \in Requests /\ Named(order[1].pool)
      BY <1>7, <1>10, <3>2 DEF Pools
    <3> QED
      BY <3>1, <3>4, <3>5
  <2>2. CASE q # r
    <3>1. /\ pc[q] \in Evicting /\ pc'[q] = pc[q] /\ stale'[q] = stale[q]
          /\ stale[q] \in Requests /\ Made(stale[q])
          /\ \A i \in DOMAIN registry : registry[i].pool # stale[q]
          /\ pc[q] # "evict" => shut[stale[q]]
      BY <1>5, <2>2 DEF Lined, Evicted
    <3>2. stale[q] # p
      BY <1>1, <1>6, <3>1
    <3>3. \A n \in DOMAIN order : order[n].pool # stale[q]
      BY <1>1, <1>8, <1>9, <3>1, <3>2 DEF Entry
    <3> QED
      BY <1>1, <1>7, <3>1, <3>3 DEF Pools
  <2> QED
    BY <2>1, <2>2
<1>15. Standing'
  <2>1. \A q \in Pools : shut[q] \/ q \in toClose => Named(q)
    BY <1>7 DEF Lined, Standing
  <2>2. main = "open" => ~shut[Checker] /\ \A i \in DOMAIN registry' : ~shut[registry'[i].pool]
    <3>1. main = "open" => \A n \in DOMAIN order : ~shut[order[n].pool]
      BY <1>1, <1>6, <1>8, <1>9 DEF Entry, Lined, Standing
    <3> QED
      BY <1>1, <3>1 DEF Lined, Standing
  <2>3. main \in Calm => toClose = {} /\ closing = None
    BY DEF Lined, Standing
  <2> QED
    BY <1>3, <2>1, <2>2, <2>3 DEF Standing, Made
<1>16. PoolsBounded'
  <2>1. Len(registry') <= Keep
    <3>1. Len(registry) <= Keep
      BY DEF Lined, PoolsBounded
    <3>2. CASE d = 1
      BY <1>1, <1>4, <3>1, <3>2
    <3>3. CASE d = 0
      BY <1>1, <1>4, <3>3
    <3> QED
      BY <3>2, <3>3
  <2> SUFFICES ASSUME NEW x \in Requests, Named(x), ~shut[x]
               PROVE  \/ \E i \in DOMAIN registry' : registry'[i].pool = x
                      \/ \E q \in Requests : pc'[q] = "evict" /\ stale'[q] = x
                      \/ x \in toClose
    BY <1>3, <2>1 DEF PoolsBounded, Made
  <2>2. ASSUME NEW n \in DOMAIN order, order[n].pool = x
        PROVE  \/ \E i \in DOMAIN registry' : registry'[i].pool = x
               \/ \E q \in Requests : pc'[q] = "evict" /\ stale'[q] = x
    <3>1. CASE n = 1 /\ d = 1
      BY <1>5, <2>2, <3>1
    <3>2. CASE ~(n = 1 /\ d = 1)
      <4>1. n - d \in DOMAIN registry' /\ (n - d) + d = n
        BY <1>1, <3>2
      <4>2. registry'[n - d] = order[n]
        BY <1>1, <4>1
      <4> QED
        BY <2>2, <4>1, <4>2
    <3> QED
      BY <3>1, <3>2
  <2>3. CASE x = p
    <3>1. Len(order) \in DOMAIN order /\ order[Len(order)].pool = x
      BY <1>b, <2>3
    <3> QED
      BY <2>2, <3>1
  <2>4. CASE x # p
    <3>1. Made(x)
      BY <1>7, <2>4 DEF Pools
    <3>2. \/ \E i \in DOMAIN registry : registry[i].pool = x
          \/ \E q \in Requests : pc[q] = "evict" /\ stale[q] = x
          \/ x \in toClose
      BY <3>1 DEF Lined, PoolsBounded
    <3>3. ASSUME NEW i \in DOMAIN registry, registry[i].pool = x
          PROVE  \E n \in DOMAIN order : order[n].pool = x
      <4>1. i \notin at
        <5> SUFFICES ASSUME i \in at PROVE FALSE
          OBVIOUS
        <5>1. PICK j \in at : registry[j].pool = p
          BY <1>1, <3>3
        <5>2. i = j
          BY <5>1 DEF Typed, Keyed
        <5> QED
          BY <2>4, <3>3, <5>1, <5>2
      <4>2. PICK n \in 1..(Len(order) - 1) : g[n] = i
        BY <1>2, <4>1
      <4>3. n \in DOMAIN order
        BY <1>1
      <4> QED
        BY <1>8, <3>3, <4>2, <4>3
    <3>4. ASSUME NEW q \in Requests, pc[q] = "evict", stale[q] = x
          PROVE  pc'[q] = "evict" /\ stale'[q] = x
      BY <1>1, <1>5, <3>4
    <3> QED
      BY <2>2, <3>2, <3>3, <3>4
  <2> QED
    BY <2>3, <2>4
<1> QED
  BY <1>12, <1>13, <1>14, <1>15, <1>16 DEF Lined

LEMMA LinedEvict == ASSUME Typed, Lined, NEW r \in Requests, Evict(r) PROVE Lined'
<1>1. /\ pc[r] = "evict" /\ shut' = [shut EXCEPT ![stale[r]] = TRUE]
      /\ pc' = [pc EXCEPT ![r] = IF shut[stale[r]] THEN "use" ELSE "drain"]
      /\ UNCHANGED <<pool, stale, registry, toClose, closing, main>>
  BY DEF Evict, Shut
<1>2. /\ stale[r] \in Requests /\ Made(stale[r])
      /\ \A i \in DOMAIN registry : registry[i].pool # stale[r]
  BY <1>1 DEF Lined, Evicted, Evicting
<1>3. pc \in [Requests -> Places] /\ shut \in [Pools -> BOOLEAN]
  BY DEF Typed, TypeOK, RequestTypes, PoolTypes
<1>4. /\ \A q \in Requests \ {r} : pc'[q] = pc[q]
      /\ pc'[r] \in {"use", "drain"}
      /\ stale[r] \in Pools /\ shut'[stale[r]]
      /\ \A p \in Pools \ {stale[r]} : shut'[p] = shut[p]
  <2>1. stale[r] \in Pools
    BY <1>2 DEF Pools
  <2> QED
    BY <1>1, <1>3, <2>1
<1>5. \A p : Made(p)' = Made(p)
  BY <1>1 DEF Made
<1>6. Placed'
  BY <1>1, <1>4 DEF Lined, Placed
<1>7. Registered'
  BY <1>1, <1>5 DEF Lined, Registered
<1>8. Evicted'
  <2> SUFFICES ASSUME NEW q \in Requests, pc'[q] \in Evicting
               PROVE  /\ stale[q] \in Requests /\ Made(stale[q])
                      /\ \A i \in DOMAIN registry : registry[i].pool # stale[q]
                      /\ pc'[q] # "evict" => shut'[stale[q]]
    BY <1>1, <1>5 DEF Evicted
  <2>1. CASE q = r
    BY <1>2, <1>4, <2>1
  <2>2. CASE q # r
    <3>1. /\ pc[q] \in Evicting /\ pc'[q] = pc[q]
      BY <1>4, <2>2
    <3>2. stale[q] \in Requests /\ stale[q] \in Pools
      BY <3>1 DEF Lined, Evicted, Pools
    <3> QED
      BY <1>4, <3>1, <3>2 DEF Lined, Evicted
  <2> QED
    BY <2>1, <2>2
<1>9. Standing'
  <2>1. Checker # stale[r] /\ Checker \in Pools
    BY <1>2, NamesAssumption DEF Pools
  <2>2. \A i \in DOMAIN registry : registry[i].pool \in Pools
    BY EntryFacts
  <2>3. \A p \in Pools : shut'[p] \/ p \in toClose => Made(p)
    BY <1>2, <1>4 DEF Lined, Standing
  <2>4. main = "open" => ~shut'[Checker] /\ \A i \in DOMAIN registry : ~shut'[registry[i].pool]
    BY <1>2, <1>4, <2>1, <2>2 DEF Lined, Standing
  <2>5. main \in Calm => toClose = {} /\ closing = None
    BY DEF Lined, Standing
  <2> QED
    BY <1>1, <1>5, <2>3, <2>4, <2>5 DEF Standing
<1>10. PoolsBounded'
  <2>0. Len(registry) <= Keep
    BY DEF Lined, PoolsBounded
  <2> SUFFICES ASSUME NEW x \in Requests, Made(x), ~shut'[x]
               PROVE  \/ \E i \in DOMAIN registry : registry[i].pool = x
                      \/ \E q \in Requests : pc'[q] = "evict" /\ stale[q] = x
                      \/ x \in toClose
    BY <1>1, <1>5, <2>0 DEF PoolsBounded
  <2>1. x # stale[r] /\ ~shut[x]
    BY <1>4 DEF Pools
  <2>2. \/ \E i \in DOMAIN registry : registry[i].pool = x
        \/ \E q \in Requests : pc[q] = "evict" /\ stale[q] = x
        \/ x \in toClose
    BY <2>1 DEF Lined, PoolsBounded
  <2>3. \A q \in Requests : pc[q] = "evict" /\ stale[q] = x => pc'[q] = "evict"
    BY <1>4, <2>1
  <2> QED
    BY <2>2, <2>3
<1> QED
  BY <1>6, <1>7, <1>8, <1>9, <1>10 DEF Lined

LEMMA LinedCloseRegistry == ASSUME Typed, Lined, CloseRegistry PROVE Lined'
<1>1. /\ main = "stopping" /\ main' = "pools" /\ registry' = <<>>
      /\ toClose' = {registry[i].pool : i \in DOMAIN registry}
      /\ UNCHANGED <<pc, pool, stale, shut, closing>>
  BY DEF CloseRegistry
<1>2. \A p : Made(p)' = Made(p)
  BY <1>1 DEF Made
<1>3. Placed'
  BY <1>1 DEF Lined, Placed
<1>4. Registered'
  BY <1>1 DEF Registered
<1>5. Evicted'
  BY <1>1, <1>2 DEF Lined, Evicted
<1>6. Standing'
  <2>1. \A p \in Pools : shut[p] \/ p \in toClose' => Made(p)
    BY <1>1 DEF Lined, Standing, Registered
  <2> QED
    BY <1>1, <1>2, <2>1 DEF Standing, Calm
<1>7. PoolsBounded'
  <2>1. Len(<<>>) <= Keep
    BY SizesAssumption
  <2> SUFFICES ASSUME NEW x \in Requests, Made(x), ~shut[x]
               PROVE  \/ \E q \in Requests : pc[q] = "evict" /\ stale[q] = x
                      \/ x \in toClose'
    BY <1>1, <1>2, <2>1 DEF PoolsBounded
  <2>2. \/ \E i \in DOMAIN registry : registry[i].pool = x
        \/ \E q \in Requests : pc[q] = "evict" /\ stale[q] = x
        \/ x \in toClose
    BY DEF Lined, PoolsBounded
  <2>3. x \notin toClose
    BY <1>1 DEF Lined, Standing, Calm
  <2> QED
    BY <1>1, <2>2, <2>3
<1> QED
  BY <1>3, <1>4, <1>5, <1>6, <1>7 DEF Lined

LEMMA LinedCloseNext ==
  ASSUME Typed, Lined, NEW p \in Pools, CloseNext(p) PROVE Lined'
<1>1. /\ p \in toClose /\ shut' = [shut EXCEPT ![p] = TRUE]
      /\ toClose' = toClose \ {p}
      /\ UNCHANGED <<pc, pool, stale, registry, main>>
  BY DEF CloseNext, Shut
<1>2. \A q : Made(q)' = Made(q)
  BY <1>1 DEF Made
<1>3. shut \in [Pools -> BOOLEAN]
  BY DEF Typed, TypeOK, PoolTypes
<1>4. /\ shut'[p] /\ \A q \in Pools \ {p} : shut'[q] = shut[q]
      /\ main \notin Calm
  <2>1. main \notin Calm
    BY <1>1 DEF Lined, Standing
  <2> QED
    BY <1>1, <1>3, <2>1
<1>5. Placed'
  BY <1>1 DEF Lined, Placed
<1>6. Registered'
  BY <1>1, <1>2 DEF Lined, Registered
<1>7. Evicted'
  BY <1>1, <1>2, <1>4 DEF Lined, Evicted, Pools
<1>8. Standing'
  <2>1. \A q \in Pools : shut'[q] \/ q \in toClose' => Made(q)
    BY <1>1, <1>4 DEF Lined, Standing
  <2> QED
    BY <1>1, <1>2, <1>4, <2>1 DEF Standing, Calm
<1>9. PoolsBounded'
  <2>0. Len(registry) <= Keep
    BY DEF Lined, PoolsBounded
  <2> SUFFICES ASSUME NEW x \in Requests, Made(x), ~shut'[x]
               PROVE  \/ \E i \in DOMAIN registry : registry[i].pool = x
                      \/ \E q \in Requests : pc[q] = "evict" /\ stale[q] = x
                      \/ x \in toClose'
    BY <1>1, <1>2, <2>0 DEF PoolsBounded
  <2>1. x # p /\ ~shut[x]
    BY <1>4 DEF Pools
  <2>2. \/ \E i \in DOMAIN registry : registry[i].pool = x
        \/ \E q \in Requests : pc[q] = "evict" /\ stale[q] = x
        \/ x \in toClose
    BY <2>1 DEF Lined, PoolsBounded
  <2> QED
    BY <1>1, <2>1, <2>2
<1> QED
  BY <1>5, <1>6, <1>7, <1>8, <1>9 DEF Lined

LEMMA LinedStep == Typed /\ Lined /\ [Next]_vars => Lined'
<1> SUFFICES ASSUME Typed, Lined, [Next]_vars PROVE Lined'
  OBVIOUS
<1>0. pc \in [Requests -> Places]
  BY DEF Typed, TypeOK, RequestTypes
<1>1. CASE Aside
  <2>0. main \in Calm => toClose = {} /\ closing = None
    BY DEF Lined, Standing
  <2>1. UNCHANGED reqVars
    BY <1>1, AsideMoves
  <2>2. CASE Tick \/ Rest \/ UNCHANGED vars \/ \E w \in Requests : Orphan(w)
    BY <2>0, <2>1, <2>2, LinedStill DEF Tick, Rest, Orphan
  <2>3. CASE Stop \/ Return \/ Leave \/ Exit
    BY <2>0, <2>1, <2>3, LinedStill DEF Stop, Return, Leave, Exit, Calm
  <2>4. CASE CloseKills
    <3>1. UNCHANGED <<toClose, registry, shut, main>> /\ closing # None
      BY <2>4 DEF CloseKills
    <3> QED
      BY <2>0, <2>1, <3>1, LinedStill
  <2>5. CASE CloseChecker
    <3>1. /\ UNCHANGED <<registry, shut>> /\ main' = "checker" /\ toClose = {}
          /\ toClose' = {Checker}
      BY <2>5 DEF CloseChecker
    <3>2. Made(Checker)
      BY DEF Made
    <3> QED
      BY <2>1, <3>1, <3>2, LinedStill DEF Calm
  <2>6. CASE CloseAtExit
    <3>1. /\ UNCHANGED <<registry, shut>> /\ main = "exit" /\ main' = "atexit"
          /\ toClose' = {p \in Pools : Made(p) /\ ~shut[p]}
      BY <2>6 DEF CloseAtExit
    <3>2. toClose = {}
      BY <2>0, <3>1 DEF Calm
    <3> QED
      BY <2>1, <3>1, <3>2, LinedStill DEF Calm
  <2>7. CASE \E p \in Pools : Finalize(p)
    <3>1. UNCHANGED <<toClose, closing, registry, shut, main>>
      BY <2>7 DEF Finalize
    <3> QED
      BY <2>0, <2>1, <3>1, LinedStill
  <2>8. CASE CloseRegistry \/ \E p \in Pools : CloseNext(p)
    BY <2>8, LinedCloseRegistry, LinedCloseNext
  <2> QED
    BY <1>1, <2>2, <2>3, <2>4, <2>5, <2>6, <2>7, <2>8 DEF Aside, MainStep
<1>2. ASSUME NEW r \in Requests, Admit(r) PROVE Lined'
  BY <1>2, LinedAdmit
<1>3. ASSUME NEW r \in Requests, Serve(r) PROVE Lined'
  <2>0. main \in Calm => toClose = {} /\ closing = None
    BY DEF Lined, Standing
  <2>1. CASE GivePool(r) \/ Evict(r)
    BY <2>1, LinedGive, LinedEvict
  <2>2. CASE EvictDrains(r)
    BY <1>0, <2>0, <2>2, LinedStill DEF EvictDrains
  <2>3. CASE EvictKills(r)
    BY <1>0, <2>0, <2>3, LinedStill DEF EvictKills
  <2>4. CASE TurnedAway(r) \/ RunEnds(r) \/ Cut(r)
    BY <1>0, <2>0, <2>4, LinedStill DEF TurnedAway, RunEnds, Cut, Ends
  <2>5. CASE GetPlace(r)
    BY <1>0, <2>0, <2>5, LinedStill DEF GetPlace
  <2>6. CASE Start(r)
    BY <1>0, <2>0, <2>6, LinedStill DEF Start, Ends
  <2>7. CASE Register(r)
    BY <1>0, <2>0, <2>7, LinedStill DEF Register, Ends
  <2> QED
    BY <1>3, <2>1, <2>2, <2>3, <2>4, <2>5, <2>6, <2>7 DEF Serve
<1>4. ASSUME NEW r \in Requests, Arrive(r) PROVE Lined'
  <2>1. /\ UNCHANGED <<pool, stale, registry, shut, toClose, closing, main>>
        /\ pc[r] = "new" /\ pc' = [pc EXCEPT ![r] = "asks"]
    BY <1>4, ArriveMoves
  <2>2. main \in Calm => toClose = {} /\ closing = None
    BY DEF Lined, Standing
  <2> QED
    BY <1>0, <2>1, <2>2, LinedStill
<1> QED
  BY <1>1, <1>2, <1>3, <1>4, DoorSteps

\* However budgets are varied, the pools that are open are those the registry
\* keeps and those that somebody is about to close.
THEOREM PoolsAreBounded == Spec => []PoolsBounded
<1>1. Init => Typed /\ Lined
  BY TypedInit, LinedInit
<1>2. Typed /\ Lined /\ [Next]_vars => (Typed /\ Lined)'
  BY TypedStep, LinedStep
<1> QED
  BY <1>1, <1>2, PTL DEF Spec, Lined

-----------------------------------------------------------------------------
(* The workers. *)

Early == {"new", "asks", "pool", "evict", "drain", "kill", "use", "start"}
Born  == {"serving", "done"}

Unborn == \A r \in Requests : pc[r] \in Early => proc[r] = "unborn"

\* A run has a worker of its pool to itself; while the door stands, one that
\* was killed was killed with its pool.
Serving ==
  \A r \in Requests : pc[r] = "serving" =>
    /\ worker[r] \in Requests /\ proc[worker[r]] \in {"runs", "gone"}
    /\ pool[worker[r]] = pool[r] /\ pc[worker[r]] \in Born
    /\ \A q \in Requests : pc[q] = "serving" /\ worker[q] = worker[r] => q = r
    /\ worker[r] \notin idle[pool[r]]
    /\ main = "open" /\ proc[worker[r]] = "gone" => shut[pool[r]]

Housed ==
  /\ \A p \in Pools : \A w \in live[p] : pool[w] = p /\ pc[w] \in Born
  /\ \A p \in Pools : \A w \in idle[p] : pool[w] = p /\ pc[w] \in Born
  /\ \A r \in Requests : pc[r] = "kill" => \A w \in doomed[r] :
       pool[w] = stale[r] /\ pc[w] \in Born

Served == Unborn /\ Serving /\ Housed

LEMMA ServedInit == Init => Served
<1> SUFFICES ASSUME Init PROVE Served
  OBVIOUS
<1>1. /\ \A r \in Requests : pc[r] = "new" /\ proc[r] = "unborn"
      /\ \A p \in Pools : live[p] = {} /\ idle[p] = {}
  BY DEF Init
<1> QED
  BY <1>1 DEF Served, Unborn, Serving, Housed

LEMMA TypesOf ==
  ASSUME Typed
  PROVE  /\ pc \in [Requests -> Places] /\ pool \in [Requests -> Pools \union {None}]
         /\ worker \in [Requests -> Requests \union {None}]
         /\ stale \in [Requests -> Pools \union {None}]
         /\ doomed \in [Requests -> SUBSET Requests]
         /\ live \in [Pools -> SUBSET Requests] /\ idle \in [Pools -> SUBSET Requests]
         /\ shut \in [Pools -> BOOLEAN]
         /\ proc \in [Requests -> {"unborn", "waits", "runs", "gone"}]
         /\ late \subseteq Requests
  BY DEF Typed, TypeOK, RequestTypes, PoolTypes

LEMMA ServedAside == ASSUME Typed, Lined, Served, Aside PROVE Served'
<1> USE TypesOf
<1>0. UNCHANGED reqVars
  BY AsideMoves
<1>1. CASE Tick \/ Rest \/ UNCHANGED vars
  BY <1>0, <1>1 DEF Served, Unborn, Serving, Housed, Tick, Rest
<1>2. CASE Stop \/ Return \/ Leave \/ Exit \/ CloseChecker \/ CloseAtExit \/ CloseRegistry
  <2>1. UNCHANGED <<live, idle, proc, shut>> /\ main' # "open"
    BY <1>2 DEF Stop, Return, Leave, Exit, CloseChecker, CloseAtExit, CloseRegistry
  <2> QED
    BY <1>0, <2>1 DEF Served, Unborn, Serving, Housed
<1>3. CASE \E w \in Requests : Orphan(w)
  <2>1. PICK w \in Requests :
          /\ main = "exited" /\ proc[w] = "waits" /\ proc' = [proc EXCEPT ![w] = "gone"]
          /\ UNCHANGED <<live, idle, shut, main>>
    BY <1>3 DEF Orphan
  <2> QED
    BY <1>0, <2>1 DEF Served, Unborn, Serving, Housed
<1>4. CASE CloseKills \/ \E p \in Pools : Finalize(p)
  <2>1. PICK p \in Pools :
          /\ main # "open" /\ UNCHANGED <<shut, idle, main>>
          /\ live' = [live EXCEPT ![p] = {}]
          /\ proc' = [w \in Requests |-> IF w \in live[p] THEN "gone" ELSE proc[w]]
    <3>1. CASE CloseKills
      <4>1. closing # None /\ closing \in Pools /\ main # "open"
        BY <3>1 DEF CloseKills, Typed, TypeOK, MainTypes, Lined, Standing, Calm
      <4> QED
        BY <3>1, <4>1 DEF CloseKills, KillWorkers
    <3>2. CASE \E p \in Pools : Finalize(p)
      BY <3>2 DEF Finalize, KillWorkers
    <3> QED
      BY <1>4, <3>1, <3>2
  <2>2. /\ \A q \in Pools : live'[q] \subseteq live[q]
        /\ \A w \in Requests : proc'[w] = proc[w] \/ (proc'[w] = "gone" /\ w \in live[p])
    BY <2>1
  <2>3. Unborn'
    BY <1>0, <2>2 DEF Served, Unborn, Housed, Early, Born
  <2>4. Serving'
    BY <1>0, <2>1, <2>2 DEF Served, Serving
  <2>5. Housed'
    BY <1>0, <2>1, <2>2 DEF Served, Housed
  <2> QED
    BY <2>3, <2>4, <2>5 DEF Served
<1>5. CASE \E p \in Pools : CloseNext(p)
  <2>1. PICK p \in Pools : /\ shut' = [shut EXCEPT ![p] = TRUE]
                           /\ UNCHANGED <<live, idle, proc, main>>
    BY <1>5 DEF CloseNext, Shut
  <2>2. main # "open"
    BY <1>5 DEF CloseNext, Lined, Standing, Calm
  <2> QED
    BY <1>0, <2>1, <2>2 DEF Served, Unborn, Serving, Housed
<1> QED
  BY <1>1, <1>2, <1>3, <1>4, <1>5 DEF Aside, MainStep

\* A request that has no worker yet, and goes on without one.
LEMMA ServedFirst ==
  ASSUME Typed, Served, NEW r \in Requests, pc[r] \in Early,
         \A q \in Requests \ {r} : pc'[q] = pc[q] /\ pool'[q] = pool[q],
         pc'[r] \in Early \union {"done"}, pc'[r] # "kill",
         UNCHANGED <<worker, doomed, live, idle, proc, main>>,
         \A q \in Requests \ {r} : stale'[q] = stale[q],
         \A p \in Pools : shut[p] => shut'[p]
  PROVE  Served'
<1> USE TypesOf
<1>1. Unborn'
  BY DEF Served, Unborn
<1>2. Serving'
  <2> SUFFICES ASSUME NEW q \in Requests, pc'[q] = "serving"
               PROVE  /\ worker[q] \in Requests /\ proc[worker[q]] \in {"runs", "gone"}
                      /\ pool'[worker[q]] = pool'[q] /\ pc'[worker[q]] \in Born
                      /\ \A x \in Requests : pc'[x] = "serving" /\ worker[x] = worker[q] => x = q
                      /\ worker[q] \notin idle[pool'[q]]
                      /\ main = "open" /\ proc[worker[q]] = "gone" => shut'[pool'[q]]
    BY DEF Serving
  <2>1. q # r /\ pc[q] = "serving" /\ pool'[q] = pool[q]
    BY DEF Early
  <2>2. worker[q] \in Requests /\ pc[worker[q]] \in Born
    BY <2>1 DEF Served, Serving
  <2>3. worker[q] # r
    BY <2>2 DEF Early, Born
  <2>4. pool[q] \in Pools
    BY <2>1 DEF Typed, Given
  <2>5. \A x \in Requests : pc'[x] = "serving" => pc[x] = "serving"
    BY DEF Early
  <2> QED
    BY <2>1, <2>2, <2>3, <2>4, <2>5 DEF Served, Serving
<1>3. Housed'
  <2>1. \A w \in Requests : pc[w] \in Born => pc'[w] \in Born /\ pool'[w] = pool[w]
    BY DEF Early, Born
  <2>2. \A q \in Requests : pc'[q] = "kill" => pc[q] = "kill" /\ stale'[q] = stale[q]
    OBVIOUS
  <2>3. \A q \in Requests : pc'[q] = "kill" => \A w \in doomed[q] :
          pool'[w] = stale'[q] /\ pc'[w] \in Born
    BY <2>1, <2>2 DEF Served, Housed
  <2>4. \A p \in Pools : \A w \in live[p] : pool'[w] = p /\ pc'[w] \in Born
    BY <2>1 DEF Served, Housed
  <2>5. \A p \in Pools : \A w \in idle[p] : pool'[w] = p /\ pc'[w] \in Born
    BY <2>1 DEF Served, Housed
  <2> QED
    BY <2>3, <2>4, <2>5 DEF Housed
<1> QED
  BY <1>1, <1>2, <1>3 DEF Served

LEMMA ServedEvict ==
  ASSUME Typed, Lined, Served, NEW r \in Requests, EvictDrains(r) \/ EvictKills(r)
  PROVE  Served'
<1> USE TypesOf
<1>0. UNCHANGED <<worker, pool, stale, idle, shut, main>>
  BY DEF EvictDrains, EvictKills
<1>1. CASE EvictDrains(r)
  <2>1. /\ doomed' = [doomed EXCEPT ![r] = live[stale[r]]]
        /\ live' = [live EXCEPT ![stale[r]] = {}]
        /\ pc[r] = "drain" /\ pc' = [pc EXCEPT ![r] = "kill"] /\ UNCHANGED proc
    BY <1>1 DEF EvictDrains
  <2>2. stale[r] \in Pools
    BY <2>1 DEF Typed, Given, Evicting
  <2>3. Unborn'
    BY <2>1 DEF Served, Unborn, Early
  <2>4. Serving'
    BY <1>0, <2>1 DEF Served, Serving, Born
  <2>5. Housed'
    <3>1. \A w \in Requests : pc[w] \in Born => pc'[w] \in Born
      BY <2>1 DEF Born
    <3>2. \A q \in Requests : pc'[q] = "kill" => \A w \in doomed'[q] :
            pool[w] = stale[q] /\ pc'[w] \in Born
      <4> TAKE q \in Requests
      <4> HAVE pc'[q] = "kill"
      <4>1. CASE q = r
        <5>1. doomed'[q] = live[stale[q]]
          BY <2>1, <4>1
        <5> QED
          BY <2>2, <3>1, <4>1, <5>1 DEF Served, Housed
      <4>2. CASE q # r
        <5>1. doomed'[q] = doomed[q] /\ pc[q] = "kill"
          BY <2>1, <4>2
        <5> QED
          BY <3>1, <5>1 DEF Served, Housed
      <4> QED
        BY <4>1, <4>2
    <3>3. \A p \in Pools : \A w \in live'[p] : pool[w] = p /\ pc'[w] \in Born
      <4>1. \A p \in Pools : live'[p] \subseteq live[p]
        BY <2>1
      <4> QED
        BY <3>1, <4>1 DEF Served, Housed
    <3>4. \A p \in Pools : \A w \in idle[p] : pool[w] = p /\ pc'[w] \in Born
      BY <3>1 DEF Served, Housed
    <3> QED
      BY <1>0, <3>2, <3>3, <3>4 DEF Housed
  <2> QED
    BY <2>3, <2>4, <2>5 DEF Served
<1>2. CASE EvictKills(r)
  <2>1. /\ proc' = [w \in Requests |-> IF w \in doomed[r] THEN "gone" ELSE proc[w]]
        /\ pc[r] = "kill" /\ pc' = [pc EXCEPT ![r] = "use"] /\ UNCHANGED <<live, doomed>>
    BY <1>2 DEF EvictKills
  <2>2. /\ \A w \in Requests :
             proc'[w] = proc[w] \/ (proc'[w] = "gone" /\ w \in doomed[r])
        /\ \A w \in doomed[r] : pool[w] = stale[r] /\ pc[w] \in Born
        /\ shut[stale[r]]
    BY <2>1 DEF Served, Housed, Lined, Evicted, Evicting
  <2>3. Unborn'
    <3>1. \A q \in Requests : pc'[q] \in Early => pc[q] \in Early
      BY <2>1 DEF Early
    <3>2. \A q \in Requests : pc[q] \in Early => q \notin doomed[r]
      BY <2>2 DEF Early, Born
    <3> QED
      BY <2>1, <3>1, <3>2 DEF Served, Unborn
  <2>4. Serving'
    <3>1. \A q \in Requests : pc[q] \in Born => pc'[q] \in Born
      BY <2>1 DEF Born
    <3>2. \A q \in Requests : pc'[q] = "serving" => pc[q] = "serving"
      BY <2>1
    <3> SUFFICES ASSUME NEW q \in Requests, pc'[q] = "serving"
                 PROVE  /\ worker[q] \in Requests /\ proc'[worker[q]] \in {"runs", "gone"}
                        /\ pool[worker[q]] = pool[q] /\ pc'[worker[q]] \in Born
                        /\ \A x \in Requests : pc'[x] = "serving" /\ worker[x] = worker[q] => x = q
                        /\ worker[q] \notin idle[pool[q]]
                        /\ main = "open" /\ proc'[worker[q]] = "gone" => shut[pool[q]]
      BY <1>0 DEF Serving
    <3>3. /\ worker[q] \in Requests /\ proc[worker[q]] \in {"runs", "gone"}
          /\ pool[worker[q]] = pool[q] /\ pc[worker[q]] \in Born
          /\ \A x \in Requests : pc[x] = "serving" /\ worker[x] = worker[q] => x = q
          /\ worker[q] \notin idle[pool[q]]
          /\ main = "open" /\ proc[worker[q]] = "gone" => shut[pool[q]]
      BY <3>2 DEF Served, Serving
    <3> QED
      BY <2>2, <3>1, <3>2, <3>3
  <2>5. Housed'
    <3>1. \A w \in Requests : pc[w] \in Born => pc'[w] \in Born
      BY <2>1 DEF Born
    <3>2. \A q \in Requests : pc'[q] = "kill" => pc[q] = "kill"
      BY <2>1
    <3>3. \A q \in Requests : pc'[q] = "kill" => \A w \in doomed[q] :
            pool[w] = stale[q] /\ pc'[w] \in Born
      BY <3>1, <3>2 DEF Served, Housed
    <3>4. \A p \in Pools : \A w \in live[p] : pool[w] = p /\ pc'[w] \in Born
      BY <3>1 DEF Served, Housed
    <3>5. \A p \in Pools : \A w \in idle[p] : pool[w] = p /\ pc'[w] \in Born
      BY <3>1 DEF Served, Housed
    <3> QED
      BY <1>0, <2>1, <3>3, <3>4, <3>5 DEF Housed
  <2> QED
    BY <2>3, <2>4, <2>5 DEF Served
<1> QED
  BY <1>1, <1>2

\* A run that goes on: only its own place and its own worker change.
LEMMA HousedTurn ==
  ASSUME Typed, Served, NEW r \in Requests,
         pc[r] \in {"use", "start", "register", "serving"},
         \A q \in Requests \ {r} : pc'[q] = pc[q],
         pc'[r] \in {"start", "register", "serving", "done"},
         pc[r] = "serving" => pc'[r] = "done",
         UNCHANGED <<pool, stale, doomed>>,
         \A p \in Pools : \A w \in live'[p] : w \in live[p] \/ (pool[w] = p /\ pc'[w] \in Born),
         \A p \in Pools : \A w \in idle'[p] : w \in idle[p] \/ (pool[w] = p /\ pc'[w] \in Born)
  PROVE  Housed' /\ \A w \in Requests : pc[w] \in Born => pc'[w] \in Born
<1>1. \A w \in Requests : pc[w] \in Born => pc'[w] \in Born
  BY DEF Born
<1>2. \A q \in Requests : pc'[q] = "kill" => pc[q] = "kill"
  OBVIOUS
<1>3. \A q \in Requests : pc'[q] = "kill" => \A w \in doomed[q] :
        pool[w] = stale[q] /\ pc'[w] \in Born
  BY <1>1, <1>2, TypesOf DEF Served, Housed
<1>4. \A p \in Pools : \A w \in live'[p] : pool[w] = p /\ pc'[w] \in Born
  BY <1>1, TypesOf DEF Served, Housed
<1>5. \A p \in Pools : \A w \in idle'[p] : pool[w] = p /\ pc'[w] \in Born
  BY <1>1, TypesOf DEF Served, Housed
<1> QED
  BY <1>1, <1>3, <1>4, <1>5 DEF Housed

\* The runs that are served go on undisturbed when another does a step.
LEMMA ServingTurn ==
  ASSUME Typed, Served, NEW r \in Requests,
         pc[r] \in {"use", "start", "register", "serving"},
         \A q \in Requests \ {r} : pc'[q] = pc[q] /\ worker'[q] = worker[q],
         \A w \in Requests : pc[w] \in Born => pc'[w] \in Born,
         UNCHANGED <<pool, shut, main>>,
         NEW q \in Requests \ {r}, pc[q] = "serving",
         proc'[worker[q]] = proc[worker[q]],
         worker[q] \notin idle'[pool[q]],
         pc'[r] = "serving" => worker'[r] # worker[q]
  PROVE  /\ worker'[q] \in Requests /\ proc'[worker'[q]] \in {"runs", "gone"}
         /\ pool'[worker'[q]] = pool'[q] /\ pc'[worker'[q]] \in Born
         /\ \A x \in Requests : pc'[x] = "serving" /\ worker'[x] = worker'[q] => x = q
         /\ worker'[q] \notin idle'[pool'[q]]
         /\ main' = "open" /\ proc'[worker'[q]] = "gone" => shut'[pool'[q]]
<1>1. /\ worker[q] \in Requests /\ proc[worker[q]] \in {"runs", "gone"}
      /\ pool[worker[q]] = pool[q] /\ pc[worker[q]] \in Born
      /\ \A x \in Requests : pc[x] = "serving" /\ worker[x] = worker[q] => x = q
      /\ main = "open" /\ proc[worker[q]] = "gone" => shut[pool[q]]
  BY DEF Served, Serving
<1>2. worker'[q] = worker[q]
  OBVIOUS
<1>3. \A x \in Requests : pc'[x] = "serving" /\ worker'[x] = worker[q] => x = q
  BY <1>1
<1> QED
  BY <1>1, <1>2, <1>3

LEMMA ServedPlace == ASSUME Typed, Served, NEW r \in Requests, GetPlace(r) PROVE Served'
<1> USE TypesOf
<1>1. /\ pc[r] = "use" /\ UNCHANGED <<pool, stale, doomed, shut, live, main>>
      /\ \/ /\ pc' = [pc EXCEPT ![r] = "start"] /\ UNCHANGED <<worker, proc>>
            /\ idle' = idle \/ \E w \in idle[pool[r]] :
                                 idle' = [idle EXCEPT ![pool[r]] = idle[pool[r]] \ {w}]
         \/ \E w \in idle[pool[r]] :
              /\ idle' = [idle EXCEPT ![pool[r]] = idle[pool[r]] \ {w}]
              /\ proc[w] = "waits" /\ proc' = [proc EXCEPT ![w] = "runs"]
              /\ worker' = [worker EXCEPT ![r] = w]
              /\ pc' = [pc EXCEPT ![r] = "serving"]
  BY DEF GetPlace
<1>2. pool[r] \in Pools
  BY <1>1 DEF Typed, Given
<1>3. \A p \in Pools : idle'[p] \subseteq idle[p]
  BY <1>1, <1>2
<1>4. /\ pc'[r] \in {"start", "serving"} /\ \A q \in Requests \ {r} : pc'[q] = pc[q]
  BY <1>1
<1>5. Housed' /\ \A w \in Requests : pc[w] \in Born => pc'[w] \in Born
  BY <1>1, <1>3, <1>4, HousedTurn
<1>6. \A q \in Requests \ {r} : worker'[q] = worker[q] /\ pc'[q] = pc[q]
  BY <1>1, <1>4
<1>7. ASSUME NEW q \in Requests, pc'[q] = "serving"
      PROVE  /\ worker'[q] \in Requests /\ proc'[worker'[q]] \in {"runs", "gone"}
             /\ pool'[worker'[q]] = pool'[q] /\ pc'[worker'[q]] \in Born
             /\ \A x \in Requests : pc'[x] = "serving" /\ worker'[x] = worker'[q] => x = q
             /\ worker'[q] \notin idle'[pool'[q]]
             /\ main' = "open" /\ proc'[worker'[q]] = "gone" => shut'[pool'[q]]
  <2>1. ASSUME NEW w \in idle[pool[r]], NEW x \in Requests, pc[x] = "serving"
        PROVE  worker[x] # w /\ worker[x] \notin idle'[pool[x]]
    <3>1. /\ worker[x] \in Requests /\ pool[worker[x]] = pool[x]
          /\ worker[x] \notin idle[pool[x]]
      BY <2>1 DEF Served, Serving
    <3>2. pool[w] = pool[r]
      BY <1>2 DEF Served, Housed
    <3>3. pool[x] \in Pools
      BY <2>1 DEF Typed, Given
    <3> QED
      BY <1>3, <3>1, <3>2, <3>3
  <2>2. CASE q = r
    <3>1. PICK w \in idle[pool[r]] :
            /\ idle' = [idle EXCEPT ![pool[r]] = idle[pool[r]] \ {w}]
            /\ proc' = [proc EXCEPT ![w] = "runs"]
            /\ worker' = [worker EXCEPT ![r] = w]
      BY <1>1, <2>2, <1>7
    <3>2. w \in Requests /\ pool[w] = pool[r] /\ pc[w] \in Born
      BY <1>2 DEF Served, Housed
    <3>3. worker'[r] = w /\ proc'[w] = "runs" /\ w \notin idle'[pool[r]]
      BY <1>2, <3>1, <3>2
    <3>4. \A x \in Requests : pc'[x] = "serving" /\ worker'[x] = w => x = q
      BY <1>6, <2>1, <2>2
    <3> QED
      BY <1>1, <1>5, <2>2, <3>2, <3>3, <3>4
  <2>3. CASE q # r
    <3>1. pc[q] = "serving"
      BY <1>4, <1>7, <2>3
    <3>2. /\ worker[q] \in Requests /\ worker[q] \notin idle[pool[q]] /\ pool[q] \in Pools
      BY <3>1 DEF Served, Serving, Typed, Given
    <3>3. /\ proc'[worker[q]] = proc[worker[q]] /\ worker[q] \notin idle'[pool[q]]
          /\ pc'[r] = "serving" => worker'[r] # worker[q]
      <4>1. CASE pc' = [pc EXCEPT ![r] = "start"] /\ proc' = proc
        BY <1>3, <3>2, <4>1
      <4>2. ASSUME NEW w \in idle[pool[r]], proc' = [proc EXCEPT ![w] = "runs"],
                   worker' = [worker EXCEPT ![r] = w]
            PROVE  /\ proc'[worker[q]] = proc[worker[q]] /\ worker[q] \notin idle'[pool[q]]
                   /\ pc'[r] = "serving" => worker'[r] # worker[q]
        BY <2>1, <3>1, <3>2, <4>2
      <4> QED
        BY <1>1, <4>1, <4>2
    <3> QED
      BY <1>1, <1>5, <1>6, <2>3, <3>1, <3>3, ServingTurn
  <2> QED
    BY <2>2, <2>3
<1>8. Unborn'
  <2> SUFFICES ASSUME NEW q \in Requests, pc'[q] \in Early PROVE proc'[q] = "unborn"
    BY DEF Unborn
  <2>1. pc[q] \in Early /\ proc[q] = "unborn"
    BY <1>1, <1>4 DEF Served, Unborn, Early
  <2>2. \A w \in idle[pool[r]] : w # q
    BY <1>2, <2>1 DEF Served, Housed, Early, Born
  <2> QED
    BY <1>1, <2>1, <2>2
<1> QED
  BY <1>5, <1>7, <1>8 DEF Served, Serving

LEMMA ServedStart ==
  ASSUME Typed, Served, NEW r \in Requests, Start(r) \/ Register(r) PROVE Served'
<1> USE TypesOf
<1>1. /\ pc[r] \in {"start", "register"}
      /\ UNCHANGED <<pool, stale, doomed, shut, idle, main>>
      /\ \/ /\ pc' = [pc EXCEPT ![r] = "register"] /\ proc' = [proc EXCEPT ![r] = "waits"]
            /\ UNCHANGED <<worker, live>>
         \/ /\ pc' = [pc EXCEPT ![r] = "done"] /\ proc' = [proc EXCEPT ![r] = "gone"]
            /\ UNCHANGED <<worker, live>>
         \/ /\ pc' = [pc EXCEPT ![r] = "serving"] /\ proc' = [proc EXCEPT ![r] = "runs"]
            /\ worker' = [worker EXCEPT ![r] = r]
            /\ live' = [live EXCEPT ![pool[r]] = live[pool[r]] \union {r}]
  <2>1. CASE Start(r)
    BY <2>1 DEF Start, Ends
  <2>2. CASE Register(r)
    BY <2>2 DEF Register, Ends
  <2> QED
    BY <2>1, <2>2
<1>2. pool[r] \in Pools
  BY <1>1 DEF Typed, Given
<1>3. /\ pc'[r] \in {"register", "serving", "done"}
      /\ \A q \in Requests \ {r} : pc'[q] = pc[q] /\ worker'[q] = worker[q] /\ proc'[q] = proc[q]
  BY <1>1
<1>4. \A p \in Pools : \A w \in live'[p] : w \in live[p] \/ (pool[w] = p /\ pc'[w] \in Born)
  BY <1>1, <1>2 DEF Born
<1>5. Housed' /\ \A w \in Requests : pc[w] \in Born => pc'[w] \in Born
  BY <1>1, <1>3, <1>4, HousedTurn
<1>6. Unborn'
  BY <1>3 DEF Served, Unborn, Early
<1>7. ASSUME NEW q \in Requests, pc'[q] = "serving"
      PROVE  /\ worker'[q] \in Requests /\ proc'[worker'[q]] \in {"runs", "gone"}
             /\ pool'[worker'[q]] = pool'[q] /\ pc'[worker'[q]] \in Born
             /\ \A x \in Requests : pc'[x] = "serving" /\ worker'[x] = worker'[q] => x = q
             /\ worker'[q] \notin idle'[pool'[q]]
             /\ main' = "open" /\ proc'[worker'[q]] = "gone" => shut'[pool'[q]]
  <2>1. \A x \in Requests : pc[x] = "serving" => worker[x] \in Requests /\ worker[x] # r
    BY <1>1 DEF Served, Serving, Born
  <2>2. CASE q = r
    <3>1. /\ worker' = [worker EXCEPT ![r] = r] /\ proc' = [proc EXCEPT ![r] = "runs"]
          /\ pc'[r] = "serving"
      BY <1>1, <1>7, <2>2
    <3>2. worker'[r] = r /\ proc'[r] = "runs"
      BY <3>1
    <3>3. \A x \in Requests : pc'[x] = "serving" /\ worker'[x] = r => x = q
      BY <1>3, <2>1, <2>2
    <3>4. r \notin idle[pool[r]]
      BY <1>1, <1>2 DEF Served, Housed, Born
    <3> QED
      BY <1>1, <2>2, <3>1, <3>2, <3>3, <3>4 DEF Born
  <2>3. CASE q # r
    <3>1. pc[q] = "serving"
      BY <1>3, <1>7, <2>3
    <3>2. /\ worker[q] \in Requests /\ worker[q] # r /\ worker[q] \notin idle[pool[q]]
      BY <2>1, <3>1 DEF Served, Serving
    <3>3. /\ proc'[worker[q]] = proc[worker[q]] /\ worker[q] \notin idle'[pool[q]]
          /\ pc'[r] = "serving" => worker'[r] # worker[q]
      BY <1>1, <1>3, <3>2
    <3> QED
      BY <1>1, <1>3, <1>5, <2>3, <3>1, <3>3, ServingTurn
  <2> QED
    BY <2>2, <2>3
<1> QED
  BY <1>5, <1>6, <1>7 DEF Served, Serving

LEMMA ServedEnd ==
  ASSUME Typed, Served, NEW r \in Requests, RunEnds(r) \/ Cut(r) PROVE Served'
<1> USE TypesOf
<1>1. /\ pc[r] = "serving" /\ pc' = [pc EXCEPT ![r] = "done"]
      /\ UNCHANGED <<pool, stale, doomed, shut, worker, main>>
      /\ \/ /\ proc' = [proc EXCEPT ![worker[r]] = "waits"] /\ UNCHANGED live
            /\ idle' = [idle EXCEPT ![pool[r]] = idle[pool[r]] \union {worker[r]}]
         \/ /\ proc' = [proc EXCEPT ![worker[r]] = "gone"] \/ proc' = proc
            /\ live' = [live EXCEPT ![pool[r]] = live[pool[r]] \ {worker[r]}]
            /\ UNCHANGED idle
  <2>1. CASE RunEnds(r)
    BY <2>1 DEF RunEnds, Ends
  <2>2. CASE Cut(r)
    BY <2>2 DEF Cut, Ends
  <2> QED
    BY <2>1, <2>2
<1>2. /\ worker[r] \in Requests /\ pool[worker[r]] = pool[r] /\ pc[worker[r]] \in Born
      /\ \A x \in Requests : pc[x] = "serving" /\ worker[x] = worker[r] => x = r
      /\ pool[r] \in Pools
  BY <1>1 DEF Served, Serving, Typed, Given
<1>3. pc'[r] = "done" /\ \A q \in Requests \ {r} : pc'[q] = pc[q]
  BY <1>1
<1>4. /\ \A p \in Pools : \A w \in live'[p] : w \in live[p]
      /\ \A p \in Pools : \A w \in idle'[p] :
           w \in idle[p] \/ (w = worker[r] /\ pool[w] = p /\ pc'[w] \in Born)
  BY <1>1, <1>2, <1>3 DEF Born
<1>5. Housed' /\ \A w \in Requests : pc[w] \in Born => pc'[w] \in Born
  BY <1>1, <1>3, <1>4, HousedTurn
<1>6. Unborn'
  <2> SUFFICES ASSUME NEW q \in Requests, pc'[q] \in Early PROVE proc'[q] = "unborn"
    BY DEF Unborn
  <2>1. q # r /\ pc[q] \in Early /\ proc[q] = "unborn"
    BY <1>3 DEF Served, Unborn, Early
  <2>2. worker[r] # q
    BY <1>2, <2>1 DEF Early, Born
  <2> QED
    BY <1>1, <2>1, <2>2
<1>7. ASSUME NEW q \in Requests, pc'[q] = "serving"
      PROVE  /\ worker'[q] \in Requests /\ proc'[worker'[q]] \in {"runs", "gone"}
             /\ pool'[worker'[q]] = pool'[q] /\ pc'[worker'[q]] \in Born
             /\ \A x \in Requests : pc'[x] = "serving" /\ worker'[x] = worker'[q] => x = q
             /\ worker'[q] \notin idle'[pool'[q]]
             /\ main' = "open" /\ proc'[worker'[q]] = "gone" => shut'[pool'[q]]
  <2>1. q # r /\ pc[q] = "serving"
    BY <1>3, <1>7
  <2>2. worker[q] \in Requests /\ worker[q] # worker[r] /\ worker[q] \notin idle[pool[q]]
        /\ pool[q] \in Pools
    BY <1>2, <2>1 DEF Served, Serving, Typed, Given
  <2>3. proc'[worker[q]] = proc[worker[q]] /\ worker[q] \notin idle'[pool[q]]
    BY <1>1, <1>4, <2>2
  <2> QED
    BY <1>1, <1>3, <1>5, <2>1, <2>3, ServingTurn
<1> QED
  BY <1>5, <1>6, <1>7 DEF Served, Serving

LEMMA ServedStep == Typed /\ Lined /\ Served /\ [Next]_vars => Served'
<1> SUFFICES ASSUME Typed, Lined, Served, [Next]_vars PROVE Served'
  OBVIOUS
<1>0. pc \in [Requests -> Places] /\ pool \in [Requests -> Pools \union {None}]
      /\ stale \in [Requests -> Pools \union {None}] /\ shut \in [Pools -> BOOLEAN]
  BY TypesOf
<1>1. CASE Aside
  BY <1>1, ServedAside
<1>2. ASSUME NEW r \in Requests, Admit(r) PROVE Served'
  <2>1. PICK goes \in BOOLEAN :
          LET to == IF goes THEN Route(ask[r]) ELSE <<"done", "limited">> IN
          /\ ask[r] \in Asks /\ pc[r] = "asks" /\ pc' = [pc EXCEPT ![r] = to[1]]
          /\ pool' = [pool EXCEPT ![r] = IF to[1] = "use" THEN Checker ELSE None]
    BY <1>2, AdmitFacts
  <2>2. Route(ask[r])[1] \in {"done", "use", "pool"}
    BY <2>1, KeyFacts
  <2>3. /\ pc'[r] \in {"done", "use", "pool"}
        /\ \A q \in Requests \ {r} : pc'[q] = pc[q] /\ pool'[q] = pool[q]
    <3>1. CASE goes
      BY <1>0, <2>1, <2>2, <3>1
    <3>2. CASE ~goes
      BY <1>0, <2>1, <3>2
    <3> QED
      BY <3>1, <3>2
  <2>4. UNCHANGED <<worker, doomed, live, idle, proc, main, stale, shut>>
    BY <1>2 DEF Admit
  <2> QED
    BY <2>1, <2>3, <2>4, ServedFirst DEF Early
<1>3. ASSUME NEW r \in Requests, Serve(r) PROVE Served'
  <2>1. CASE GivePool(r)
    <3>1. PICK p \in Pools, order \in Seq(Entries) :
            /\ pc[r] = "pool" /\ pool' = [pool EXCEPT ![r] = p]
            /\ pc' = [pc EXCEPT ![r] = IF Len(order) > Keep THEN "evict" ELSE "use"]
            /\ Len(order) > Keep => stale' = [stale EXCEPT ![r] = order[1].pool]
            /\ ~(Len(order) > Keep) => stale' = [stale EXCEPT ![r] = None]
            /\ UNCHANGED <<worker, doomed, live, idle, proc, main, shut>>
      BY <2>1, GivePoolFacts
    <3>2. /\ pc'[r] \in {"evict", "use"}
          /\ \A q \in Requests \ {r} : pc'[q] = pc[q] /\ pool'[q] = pool[q] /\ stale'[q] = stale[q]
      BY <1>0, <3>1
    <3> QED
      BY <3>1, <3>2, ServedFirst DEF Early
  <2>2. CASE Evict(r)
    <3>1. /\ pc[r] = "evict" /\ shut' = [shut EXCEPT ![stale[r]] = TRUE]
          /\ pc' = [pc EXCEPT ![r] = IF shut[stale[r]] THEN "use" ELSE "drain"]
          /\ UNCHANGED <<pool, worker, stale, doomed, live, idle, proc, main>>
      BY <2>2 DEF Evict, Shut
    <3>2. pc'[r] \in {"use", "drain"} /\ \A q \in Requests \ {r} : pc'[q] = pc[q]
      BY <1>0, <3>1
    <3>3. \A p \in Pools : shut[p] => shut'[p]
      BY <1>0, <3>1
    <3> QED
      BY <3>1, <3>2, <3>3, ServedFirst DEF Early
  <2>3. CASE TurnedAway(r)
    <3>1. /\ pc[r] = "use" /\ pc' = [pc EXCEPT ![r] = "done"]
          /\ UNCHANGED <<pool, worker, stale, doomed, live, idle, proc, main, shut>>
      BY <2>3 DEF TurnedAway, Ends
    <3> QED
      BY <1>0, <3>1, ServedFirst DEF Early
  <2>4. CASE EvictDrains(r) \/ EvictKills(r)
    BY <2>4, ServedEvict
  <2>5. CASE GetPlace(r) \/ Start(r) \/ Register(r) \/ RunEnds(r) \/ Cut(r)
    BY <2>5, ServedPlace, ServedStart, ServedEnd
  <2> QED
    BY <1>3, <2>1, <2>2, <2>3, <2>4, <2>5 DEF Serve
<1>4. ASSUME NEW r \in Requests, Arrive(r) PROVE Served'
  <2>1. /\ UNCHANGED <<pool, stale, shut, worker, doomed, live, idle, proc, main>>
        /\ pc[r] = "new" /\ pc' = [pc EXCEPT ![r] = "asks"]
    BY <1>4, ArriveMoves
  <2> QED
    BY <1>0, <2>1, ServedFirst DEF Early
<1> QED
  BY <1>1, <1>2, <1>3, <1>4, DoorSteps

-----------------------------------------------------------------------------
(* What is left when the door is gone. *)

\* Every process is on a list from which somebody will kill it, or is about to
\* be put on one.
Known(w) ==
  \/ pool[w] \in Pools /\ w \in live[pool[w]]
  \/ \E r \in Requests : pc[r] = "kill" /\ w \in doomed[r]
  \/ proc[w] = "waits" /\ pc[w] = "register"

AllKnown == \A w \in Requests : proc[w] \in {"waits", "runs"} => Known(w)

\* The workers of a pool that was closed are being killed.
Emptied ==
  \A p \in Pools : shut[p] /\ live[p] # {} =>
    closing = p \/ \E r \in Requests : pc[r] = "drain" /\ stale[r] = p

\* The exit handlers come to every pool, save to workers that came later.
Visited ==
  main \in {"atexit", "leaving", "exited"} =>
    \A p \in Pools : ~shut[p] => p \in toClose \/ live[p] \subseteq late

Ending == AllKnown /\ Emptied /\ Visited

LEMMA EndingInit == Init => Ending
<1> SUFFICES ASSUME Init PROVE Ending
  OBVIOUS
<1>1. /\ \A w \in Requests : proc[w] = "unborn"
      /\ \A p \in Pools : live[p] = {}
      /\ main = "open"
  BY DEF Init
<1> QED
  BY <1>1 DEF Ending, AllKnown, Emptied, Visited

\* What neither makes nor drops a worker.
LEMMA EndingStill ==
  ASSUME Ending, UNCHANGED <<live, doomed, closing, main, late, shut>>,
         \A p \in Pools : p \in toClose => p \in toClose',
         \A w \in Requests : proc'[w] \in {"waits", "runs"} =>
           /\ proc[w] \in {"waits", "runs"} /\ pool'[w] = pool[w]
           /\ proc[w] = "waits" /\ pc[w] = "register" =>
                proc'[w] = "waits" /\ pc'[w] = "register",
         \A q \in Requests : pc[q] = "kill" => pc'[q] = "kill",
         \A q \in Requests : pc[q] = "drain" => pc'[q] = "drain" /\ stale'[q] = stale[q]
  PROVE  Ending'
<1>1. AllKnown'
  <2> SUFFICES ASSUME NEW w \in Requests, proc'[w] \in {"waits", "runs"}
               PROVE  \/ pool'[w] \in Pools /\ w \in live[pool'[w]]
                      \/ \E r \in Requests : pc'[r] = "kill" /\ w \in doomed[r]
                      \/ proc'[w] = "waits" /\ pc'[w] = "register"
    BY DEF AllKnown, Known
  <2>1. Known(w) /\ pool'[w] = pool[w]
    BY DEF Ending, AllKnown
  <2> QED
    BY <2>1 DEF Known
<1>2. Emptied'
  BY DEF Ending, Emptied
<1>3. Visited'
  BY DEF Ending, Visited
<1> QED
  BY <1>1, <1>2, <1>3 DEF Ending

LEMMA EndingAside == ASSUME Typed, Lined, Served, Ending, Aside PROVE Ending'
<1> USE TypesOf
<1>0. UNCHANGED <<reqVars, late>>
  BY AsideMoves
<1>1. CASE Tick \/ Rest \/ UNCHANGED vars
  BY <1>0, <1>1, EndingStill DEF Tick, Rest
<1>2. CASE \E w \in Requests : Orphan(w)
  <2>1. PICK w \in Requests :
          /\ proc' = [proc EXCEPT ![w] = "gone"]
          /\ UNCHANGED <<live, idle, shut, main, closing, toClose>>
    BY <1>2 DEF Orphan
  <2> QED
    BY <1>0, <2>1, EndingStill
<1>3. CASE Stop \/ CloseRegistry \/ CloseChecker \/ Return \/ Leave \/ Exit \/ CloseAtExit
  <2>1. UNCHANGED <<live, idle, proc, shut, closing>>
    BY <1>3 DEF Stop, CloseRegistry, CloseChecker, Return, Leave, Exit, CloseAtExit
  <2>2. AllKnown' /\ Emptied'
    BY <1>0, <2>1 DEF Ending, AllKnown, Known, Emptied
  <2>3. Visited'
    <3>1. CASE Stop \/ CloseRegistry \/ CloseChecker \/ Return
      BY <3>1 DEF Visited, Stop, CloseRegistry, CloseChecker, Return
    <3>2. CASE Leave \/ Exit
      BY <1>0, <2>1, <3>2 DEF Ending, Visited, Leave, Exit
    <3>3. CASE CloseAtExit
      <4>1. \A p \in Pools : live[p] # {} => Made(p)
        BY DEF Served, Housed, Made
      <4> QED
        BY <2>1, <3>3, <4>1 DEF Visited, CloseAtExit
    <3> QED
      BY <1>3, <3>1, <3>2, <3>3
  <2> QED
    BY <2>2, <2>3 DEF Ending
<1>4. CASE CloseKills \/ \E p \in Pools : Finalize(p)
  <2>1. PICK p \in Pools :
          /\ UNCHANGED <<shut, idle, main, toClose>>
          /\ closing' = closing \/ closing = p
          /\ live' = [live EXCEPT ![p] = {}]
          /\ proc' = [w \in Requests |-> IF w \in live[p] THEN "gone" ELSE proc[w]]
    <3>1. CASE CloseKills
      <4>1. closing \in Pools
        BY <3>1 DEF CloseKills, Typed, TypeOK, MainTypes
      <4> QED
        BY <3>1, <4>1 DEF CloseKills, KillWorkers
    <3>2. CASE \E p \in Pools : Finalize(p)
      BY <3>2 DEF Finalize, KillWorkers
    <3> QED
      BY <1>4, <3>1, <3>2
  <2>2. AllKnown'
    <3> SUFFICES ASSUME NEW w \in Requests, proc'[w] \in {"waits", "runs"}
                 PROVE  \/ pool[w] \in Pools /\ w \in live'[pool[w]]
                        \/ \E r \in Requests : pc[r] = "kill" /\ w \in doomed[r]
                        \/ proc'[w] = "waits" /\ pc[w] = "register"
      BY <1>0 DEF AllKnown, Known
    <3>1. proc'[w] = proc[w] /\ w \notin live[p]
      BY <2>1
    <3>2. Known(w)
      BY <3>1 DEF Ending, AllKnown
    <3> QED
      BY <2>1, <3>1, <3>2 DEF Known
  <2>3. Emptied'
    BY <1>0, <2>1 DEF Ending, Emptied
  <2>4. Visited'
    BY <1>0, <2>1 DEF Ending, Visited
  <2> QED
    BY <2>2, <2>3, <2>4 DEF Ending
<1>5. CASE \E p \in Pools : CloseNext(p)
  <2>1. PICK p \in Pools :
          /\ closing = None /\ shut' = [shut EXCEPT ![p] = TRUE]
          /\ closing' = IF shut[p] THEN None ELSE p
          /\ toClose' = toClose \ {p}
          /\ UNCHANGED <<live, idle, proc, main>>
    BY <1>5 DEF CloseNext, Shut
  <2>2. AllKnown'
    BY <1>0, <2>1 DEF Ending, AllKnown, Known
  <2>3. Emptied'
    <3> SUFFICES ASSUME NEW q \in Pools, shut'[q], live[q] # {}
                 PROVE  closing' = q \/ \E r \in Requests : pc[r] = "drain" /\ stale[r] = q
      BY <1>0, <2>1 DEF Emptied
    <3>1. CASE shut[q]
      <4>1. closing = q \/ \E r \in Requests : pc[r] = "drain" /\ stale[r] = q
        BY <3>1 DEF Ending, Emptied
      <4>2. None \notin Pools
        BY NamesAssumption DEF Pools
      <4> QED
        BY <2>1, <4>1, <4>2
    <3>2. CASE ~shut[q]
      BY <2>1, <3>2
    <3> QED
      BY <3>1, <3>2
  <2>4. Visited'
    BY <1>0, <2>1 DEF Ending, Visited
  <2> QED
    BY <2>2, <2>3, <2>4 DEF Ending
<1> QED
  BY <1>1, <1>2, <1>3, <1>4, <1>5 DEF Aside, MainStep

LEMMA EndingEvict ==
  ASSUME Typed, Lined, Served, Ending, NEW r \in Requests,
         Evict(r) \/ EvictDrains(r) \/ EvictKills(r)
  PROVE  Ending'
<1> USE TypesOf
<1>0. UNCHANGED <<pool, stale, main, toClose, closing, late>>
  BY DEF Evict, EvictDrains, EvictKills
<1>1. CASE Evict(r)
  <2>1. /\ pc[r] = "evict" /\ shut' = [shut EXCEPT ![stale[r]] = TRUE]
        /\ pc' = [pc EXCEPT ![r] = IF shut[stale[r]] THEN "use" ELSE "drain"]
        /\ UNCHANGED <<live, doomed, proc>>
    BY <1>1 DEF Evict, Shut
  <2>2. stale[r] \in Pools
    BY <2>1 DEF Typed, Given, Evicting
  <2>3. AllKnown'
    <3> SUFFICES ASSUME NEW w \in Requests, proc[w] \in {"waits", "runs"}
                 PROVE  \/ pool[w] \in Pools /\ w \in live[pool[w]]
                        \/ \E q \in Requests : pc'[q] = "kill" /\ w \in doomed[q]
                        \/ proc[w] = "waits" /\ pc'[w] = "register"
      BY <1>0, <2>1 DEF AllKnown, Known
    <3>1. Known(w)
      BY DEF Ending, AllKnown
    <3> QED
      BY <2>1, <3>1 DEF Known
  <2>4. Emptied'
    <3> SUFFICES ASSUME NEW p \in Pools, shut'[p], live[p] # {}
                 PROVE  closing = p \/ \E q \in Requests : pc'[q] = "drain" /\ stale[q] = p
      BY <1>0, <2>1 DEF Emptied
    <3>1. CASE shut[p]
      <4>1. closing = p \/ \E q \in Requests : pc[q] = "drain" /\ stale[q] = p
        BY <3>1 DEF Ending, Emptied
      <4> QED
        BY <2>1, <4>1
    <3>2. CASE ~shut[p]
      <4>1. p = stale[r]
        BY <2>1, <2>2, <3>2
      <4>2. pc'[r] = "drain"
        BY <2>1, <3>2, <4>1
      <4> QED
        BY <4>1, <4>2
    <3> QED
      BY <3>1, <3>2
  <2>5. Visited'
    <3>1. \A p \in Pools : ~shut'[p] => ~shut[p]
      BY <2>1, <2>2
    <3> QED
      BY <1>0, <2>1, <3>1 DEF Ending, Visited
  <2> QED
    BY <2>3, <2>4, <2>5 DEF Ending
<1>2. CASE EvictDrains(r)
  <2>1. /\ doomed' = [doomed EXCEPT ![r] = live[stale[r]]]
        /\ live' = [live EXCEPT ![stale[r]] = {}]
        /\ pc[r] = "drain" /\ pc' = [pc EXCEPT ![r] = "kill"] /\ UNCHANGED <<proc, shut>>
    BY <1>2 DEF EvictDrains
  <2>2. stale[r] \in Pools
    BY <2>1 DEF Typed, Given, Evicting
  <2>3. AllKnown'
    <3> SUFFICES ASSUME NEW w \in Requests, proc[w] \in {"waits", "runs"}
                 PROVE  \/ pool[w] \in Pools /\ w \in live'[pool[w]]
                        \/ \E q \in Requests : pc'[q] = "kill" /\ w \in doomed'[q]
                        \/ proc[w] = "waits" /\ pc'[w] = "register"
      BY <1>0, <2>1 DEF AllKnown, Known
    <3>1. Known(w)
      BY DEF Ending, AllKnown
    <3>2. CASE pool[w] = stale[r] /\ w \in live[pool[w]]
      <4>1. pc'[r] = "kill" /\ w \in doomed'[r]
        BY <2>1, <3>2
      <4> QED
        BY <4>1
    <3>3. CASE pool[w] \in Pools \ {stale[r]} /\ w \in live[pool[w]]
      BY <2>1, <2>2, <3>3
    <3>4. ASSUME NEW q \in Requests, pc[q] = "kill", w \in doomed[q]
          PROVE  pc'[q] = "kill" /\ w \in doomed'[q]
      BY <2>1, <3>4
    <3>5. CASE proc[w] = "waits" /\ pc[w] = "register"
      BY <2>1, <3>5
    <3> QED
      BY <3>1, <3>2, <3>3, <3>4, <3>5 DEF Known
  <2>4. Emptied'
    <3> SUFFICES ASSUME NEW p \in Pools, shut[p], live'[p] # {}
                 PROVE  closing = p \/ \E q \in Requests : pc'[q] = "drain" /\ stale[q] = p
      BY <1>0, <2>1 DEF Emptied
    <3>1. p # stale[r] /\ live[p] # {}
      BY <2>1, <2>2
    <3>2. closing = p \/ \E q \in Requests : pc[q] = "drain" /\ stale[q] = p
      BY <3>1 DEF Ending, Emptied
    <3> QED
      BY <2>1, <3>1, <3>2
  <2>5. Visited'
    <3>1. \A p \in Pools : live'[p] \subseteq live[p]
      BY <2>1, <2>2
    <3> QED
      BY <1>0, <2>1, <3>1 DEF Ending, Visited
  <2> QED
    BY <2>3, <2>4, <2>5 DEF Ending
<1>3. CASE EvictKills(r)
  <2>1. /\ proc' = [w \in Requests |-> IF w \in doomed[r] THEN "gone" ELSE proc[w]]
        /\ pc[r] = "kill" /\ pc' = [pc EXCEPT ![r] = "use"]
        /\ UNCHANGED <<live, doomed, shut>>
    BY <1>3 DEF EvictKills
  <2>2. AllKnown'
    <3> SUFFICES ASSUME NEW w \in Requests, proc'[w] \in {"waits", "runs"}
                 PROVE  \/ pool[w] \in Pools /\ w \in live[pool[w]]
                        \/ \E q \in Requests : pc'[q] = "kill" /\ w \in doomed[q]
                        \/ proc'[w] = "waits" /\ pc'[w] = "register"
      BY <1>0, <2>1 DEF AllKnown, Known
    <3>1. proc'[w] = proc[w] /\ w \notin doomed[r]
      BY <2>1
    <3>2. Known(w)
      BY <3>1 DEF Ending, AllKnown
    <3> QED
      BY <2>1, <3>1, <3>2 DEF Known
  <2>3. Emptied'
    BY <1>0, <2>1 DEF Ending, Emptied
  <2>4. Visited'
    BY <1>0, <2>1 DEF Ending, Visited
  <2> QED
    BY <2>2, <2>3, <2>4 DEF Ending
<1> QED
  BY <1>1, <1>2, <1>3

LEMMA EndingRun ==
  ASSUME Typed, Lined, Served, Ending, NEW r \in Requests,
         GetPlace(r) \/ Start(r) \/ RunEnds(r) \/ Cut(r)
  PROVE  Ending'
<1> USE TypesOf
<1>0. UNCHANGED <<pool, stale, doomed, shut, main, toClose, closing, late>>
  BY DEF GetPlace, Start, RunEnds, Cut
<1>1. CASE GetPlace(r)
  <2>1. /\ pc[r] = "use" /\ UNCHANGED live
        /\ pc' = [pc EXCEPT ![r] = "start"] \/ pc' = [pc EXCEPT ![r] = "serving"]
        /\ proc' = proc \/ \E w \in idle[pool[r]] :
             proc[w] = "waits" /\ proc' = [proc EXCEPT ![w] = "runs"]
    BY <1>1 DEF GetPlace
  <2>2. pool[r] \in Pools
    BY <2>1 DEF Typed, Given
  <2>3. \A w \in idle[pool[r]] : w \in Requests /\ pc[w] # "register"
    BY <2>2 DEF Served, Housed, Born
  <2>4. \A w \in Requests : proc'[w] \in {"waits", "runs"} =>
          /\ proc[w] \in {"waits", "runs"}
          /\ proc[w] = "waits" /\ pc[w] = "register" =>
               proc'[w] = "waits" /\ pc'[w] = "register"
    BY <2>1, <2>3
  <2>5. \A q \in Requests : /\ pc[q] = "kill" => pc'[q] = "kill"
                            /\ pc[q] = "drain" => pc'[q] = "drain"
    BY <2>1
  <2> QED
    BY <1>0, <2>1, <2>4, <2>5, EndingStill
<1>2. CASE Start(r)
  <2>1. /\ pc[r] = "start" /\ UNCHANGED live
        /\ \/ pc' = [pc EXCEPT ![r] = "register"] /\ proc' = [proc EXCEPT ![r] = "waits"]
           \/ pc' = [pc EXCEPT ![r] = "done"] /\ proc' = [proc EXCEPT ![r] = "gone"]
    BY <1>2 DEF Start, Ends
  <2>2. AllKnown'
    <3> SUFFICES ASSUME NEW w \in Requests, proc'[w] \in {"waits", "runs"}
                 PROVE  \/ pool[w] \in Pools /\ w \in live[pool[w]]
                        \/ \E q \in Requests : pc'[q] = "kill" /\ w \in doomed[q]
                        \/ proc'[w] = "waits" /\ pc'[w] = "register"
      BY <1>0, <2>1 DEF AllKnown, Known
    <3>1. CASE w = r
      BY <2>1, <3>1
    <3>2. CASE w # r
      <4>1. proc'[w] = proc[w] /\ pc'[w] = pc[w]
        BY <2>1, <3>2
      <4>2. Known(w)
        BY <4>1 DEF Ending, AllKnown
      <4> QED
        BY <2>1, <4>1, <4>2 DEF Known
    <3> QED
      BY <3>1, <3>2
  <2>3. Emptied'
    BY <1>0, <2>1 DEF Ending, Emptied
  <2>4. Visited'
    BY <1>0, <2>1 DEF Ending, Visited
  <2> QED
    BY <2>2, <2>3, <2>4 DEF Ending
<1>3. CASE RunEnds(r) \/ Cut(r)
  <2>1. /\ pc[r] = "serving" /\ pc' = [pc EXCEPT ![r] = "done"]
        /\ \/ /\ proc[worker[r]] = "runs" /\ UNCHANGED live
              /\ proc' = [proc EXCEPT ![worker[r]] = "waits"]
           \/ /\ \/ proc' = [proc EXCEPT ![worker[r]] = "gone"]
                 \/ /\ proc' = proc
                    /\ proc[worker[r]] = "gone"
              /\ live' = [live EXCEPT ![pool[r]] = live[pool[r]] \ {worker[r]}]
    <3>1. CASE RunEnds(r)
      <4>1. /\ pc[r] = "serving" /\ proc[worker[r]] = "runs"
            /\ pc' = [pc EXCEPT ![r] = "done"]
            /\ \/ /\ proc' = [proc EXCEPT ![worker[r]] = "waits"] /\ live' = live
               \/ /\ proc' = [proc EXCEPT ![worker[r]] = "gone"]
                  /\ live' = [live EXCEPT ![pool[r]] = live[pool[r]] \ {worker[r]}]
        BY <3>1 DEF RunEnds, Ends
      <4> QED
        BY <4>1
    <3>2. CASE Cut(r)
      BY <3>2 DEF Cut, Ends
    <3> QED
      BY <1>3, <3>1, <3>2
  <2>2. worker[r] \in Requests /\ pool[r] \in Pools
    BY <2>1 DEF Typed, Given
  <2>3. /\ \A p \in Pools : live'[p] \subseteq live[p]
        /\ \A p \in Pools : \A w \in live[p] : w \in live'[p] \/ w = worker[r]
        /\ \A w \in Requests : proc'[w] \in {"waits", "runs"} =>
             /\ proc[w] \in {"waits", "runs"}
             /\ w = worker[r] => proc[w] = "runs" /\ live' = live
             /\ w # worker[r] => proc'[w] = proc[w]
    BY <2>1, <2>2
  <2>4. AllKnown'
    <3> SUFFICES ASSUME NEW w \in Requests, proc'[w] \in {"waits", "runs"}
                 PROVE  \/ pool[w] \in Pools /\ w \in live'[pool[w]]
                        \/ \E q \in Requests : pc'[q] = "kill" /\ w \in doomed[q]
                        \/ proc'[w] = "waits" /\ pc'[w] = "register"
      BY <1>0 DEF AllKnown, Known
    <3>1. Known(w)
      BY <2>3 DEF Ending, AllKnown
    <3> QED
      BY <2>1, <2>3, <3>1 DEF Known
  <2>5. Emptied'
    <3> SUFFICES ASSUME NEW p \in Pools, shut[p], live'[p] # {}
                 PROVE  closing = p \/ \E q \in Requests : pc'[q] = "drain" /\ stale[q] = p
      BY <1>0 DEF Emptied
    <3>1. closing = p \/ \E q \in Requests : pc[q] = "drain" /\ stale[q] = p
      BY <2>3 DEF Ending, Emptied
    <3> QED
      BY <2>1, <3>1
  <2>6. Visited'
    BY <1>0, <2>3 DEF Ending, Visited
  <2> QED
    BY <2>4, <2>5, <2>6 DEF Ending
<1> QED
  BY <1>1, <1>2, <1>3

LEMMA EndingRegister ==
  ASSUME Typed, Lined, Served, Ending, NEW r \in Requests, Register(r) PROVE Ending'
<1> USE TypesOf
<1>1. /\ pc[r] = "register" /\ main # "exited"
      /\ UNCHANGED <<pool, stale, doomed, shut, main, toClose, closing>>
  BY DEF Register, Threads
<1>2. pool[r] \in Pools
  BY <1>1 DEF Typed, Given
<1>3. CASE shut[pool[r]]
  <2>1. /\ proc' = [proc EXCEPT ![r] = "gone"] /\ pc' = [pc EXCEPT ![r] = "done"]
        /\ UNCHANGED <<live, late>>
    BY <1>3 DEF Register, Ends
  <2> QED
    BY <1>1, <2>1, EndingStill
<1>4. CASE ~shut[pool[r]]
  <2>1. /\ live' = [live EXCEPT ![pool[r]] = live[pool[r]] \union {r}]
        /\ proc' = [proc EXCEPT ![r] = "runs"] /\ pc' = [pc EXCEPT ![r] = "serving"]
        /\ late' = IF Unseen(pool[r]) THEN late \union {r} ELSE late
    BY <1>4 DEF Register
  <2>2. /\ live'[pool[r]] = live[pool[r]] \union {r}
        /\ \A p \in Pools \ {pool[r]} : live'[p] = live[p]
        /\ late \subseteq late'
    BY <1>2, <2>1
  <2>3. AllKnown'
    <3> SUFFICES ASSUME NEW w \in Requests, proc'[w] \in {"waits", "runs"}
                 PROVE  \/ pool[w] \in Pools /\ w \in live'[pool[w]]
                        \/ \E q \in Requests : pc'[q] = "kill" /\ w \in doomed[q]
                        \/ proc'[w] = "waits" /\ pc'[w] = "register"
      BY <1>1 DEF AllKnown, Known
    <3>1. CASE w = r
      BY <1>2, <2>2, <3>1
    <3>2. CASE w # r
      <4>1. proc'[w] = proc[w] /\ pc'[w] = pc[w]
        BY <2>1, <3>2
      <4>2. Known(w)
        BY <4>1 DEF Ending, AllKnown
      <4>3. \A q \in Requests : pc[q] = "kill" => pc'[q] = "kill"
        BY <1>1, <2>1
      <4>4. \A p \in Pools : w \in live[p] => w \in live'[p]
        BY <2>2
      <4> QED
        BY <4>1, <4>2, <4>3, <4>4 DEF Known
    <3> QED
      BY <3>1, <3>2
  <2>4. Emptied'
    <3> SUFFICES ASSUME NEW p \in Pools, shut[p], live'[p] # {}
                 PROVE  closing = p \/ \E q \in Requests : pc'[q] = "drain" /\ stale[q] = p
      BY <1>1 DEF Emptied
    <3>1. closing = p \/ \E q \in Requests : pc[q] = "drain" /\ stale[q] = p
      BY <1>4, <2>2 DEF Ending, Emptied
    <3> QED
      BY <1>1, <2>1, <3>1
  <2>5. Visited'
    <3> SUFFICES ASSUME main \in {"atexit", "leaving", "exited"},
                        NEW p \in Pools, ~shut[p], p \notin toClose
                 PROVE  live'[p] \subseteq late'
      BY <1>1 DEF Visited
    <3>1. live[p] \subseteq late
      BY DEF Ending, Visited
    <3>2. CASE p = pool[r]
      <4>1. Unseen(p)
        BY <1>1 DEF Unseen
      <4> QED
        BY <2>1, <2>2, <3>1, <3>2, <4>1
    <3>3. CASE p # pool[r]
      BY <2>2, <3>1, <3>3
    <3> QED
      BY <3>2, <3>3
  <2> QED
    BY <2>3, <2>4, <2>5 DEF Ending
<1> QED
  BY <1>3, <1>4

LEMMA EndingStep == Typed /\ Lined /\ Served /\ Ending /\ [Next]_vars => Ending'
<1> SUFFICES ASSUME Typed, Lined, Served, Ending, [Next]_vars PROVE Ending'
  OBVIOUS
<1>0. pc \in [Requests -> Places] /\ pool \in [Requests -> Pools \union {None}]
      /\ stale \in [Requests -> Pools \union {None}]
  BY TypesOf
<1>1. CASE Aside
  BY <1>1, EndingAside
<1>2. ASSUME NEW r \in Requests, Admit(r) PROVE Ending'
  <2>1. \E to, p : /\ pc' = [pc EXCEPT ![r] = to]
                  /\ pool' = [pool EXCEPT ![r] = p] /\ pc[r] = "asks"
    <3>1. /\ pc[r] = "asks"
          /\ \E to, p : pc' = [pc EXCEPT ![r] = to] /\ pool' = [pool EXCEPT ![r] = p]
      BY <1>2, AdmitFacts
    <3> QED
      BY <3>1
  <2>2. /\ \A q \in Requests \ {r} : pc'[q] = pc[q] /\ pool'[q] = pool[q]
        /\ pc[r] = "asks" /\ proc[r] = "unborn"
    BY <1>0, <2>1 DEF Served, Unborn, Early
  <2>3. UNCHANGED <<doomed, live, proc, main, stale, shut, closing, toClose, late>>
    BY <1>2 DEF Admit
  <2> QED
    BY <2>2, <2>3, EndingStill
<1>3. ASSUME NEW r \in Requests, Serve(r) PROVE Ending'
  <2>1. CASE GivePool(r)
    <3>1. PICK p \in Pools, order \in Seq(Entries) :
            /\ pc[r] = "pool" /\ pool' = [pool EXCEPT ![r] = p]
            /\ pc' = [pc EXCEPT ![r] = IF Len(order) > Keep THEN "evict" ELSE "use"]
            /\ Len(order) > Keep => stale' = [stale EXCEPT ![r] = order[1].pool]
            /\ ~(Len(order) > Keep) => stale' = [stale EXCEPT ![r] = None]
            /\ UNCHANGED <<doomed, live, proc, shut, mainVars, late>>
      BY <2>1, GivePoolFacts
    <3>2. /\ \A q \in Requests \ {r} : pc'[q] = pc[q] /\ pool'[q] = pool[q] /\ stale'[q] = stale[q]
          /\ proc[r] = "unborn"
      BY <1>0, <3>1 DEF Served, Unborn, Early
    <3> QED
      BY <3>1, <3>2, EndingStill
  <2>2. CASE TurnedAway(r)
    <3>1. /\ pc[r] = "use" /\ pc' = [pc EXCEPT ![r] = "done"]
          /\ UNCHANGED <<pool, stale, doomed, live, proc, mainVars, shut, late>>
      BY <2>2 DEF TurnedAway, Ends
    <3> QED
      BY <1>0, <3>1, EndingStill
  <2>3. CASE Evict(r) \/ EvictDrains(r) \/ EvictKills(r)
    BY <2>3, EndingEvict
  <2>4. CASE GetPlace(r) \/ Start(r) \/ RunEnds(r) \/ Cut(r)
    BY <2>4, EndingRun
  <2>5. CASE Register(r)
    BY <2>5, EndingRegister
  <2> QED
    BY <1>3, <2>1, <2>2, <2>3, <2>4, <2>5 DEF Serve
<1>4. ASSUME NEW r \in Requests, Arrive(r) PROVE Ending'
  <2>1. /\ UNCHANGED <<pool, stale, shut, doomed, live, proc, main, closing, toClose, late>>
        /\ pc[r] = "new" /\ pc' = [pc EXCEPT ![r] = "asks"]
    BY <1>4, ArriveMoves
  <2> QED
    BY <1>0, <2>1, EndingStill
<1> QED
  BY <1>1, <1>2, <1>3, <1>4, DoorSteps

LEMMA EndingHolds == Typed /\ Lined /\ Ending => NothingOutlives
<1> SUFFICES ASSUME Typed, Lined, Ending, main = "exited", NEW w \in Requests, proc[w] = "runs"
             PROVE  \/ w \in late
                    \/ \E r \in Requests : \/ pc[r] = "drain" /\ w \in live[stale[r]]
                                           \/ pc[r] = "kill" /\ w \in doomed[r]
  BY DEF NothingOutlives
<1>1. toClose = {} /\ closing = None
  BY DEF Lined, Standing, Calm
<1>2. Known(w)
  BY DEF Ending, AllKnown
<1>3. CASE pool[w] \in Pools /\ w \in live[pool[w]] /\ shut[pool[w]]
  <2>1. closing = pool[w] \/ \E r \in Requests : pc[r] = "drain" /\ stale[r] = pool[w]
    BY <1>3 DEF Ending, Emptied
  <2>2. closing # pool[w]
    BY <1>1, <1>3, NamesAssumption DEF Pools
  <2> QED
    BY <1>3, <2>1, <2>2
<1>4. CASE pool[w] \in Pools /\ w \in live[pool[w]] /\ ~shut[pool[w]]
  BY <1>1, <1>4 DEF Ending, Visited
<1> QED
  BY <1>2, <1>3, <1>4 DEF Known

\* No worker outlives the door, save those of a pool that a request was
\* closing when the process ended, and those that came after the exit handlers.
THEOREM NothingIsLeft == Spec => []NothingOutlives
<1>1. Init => Typed /\ Lined /\ Served /\ Ending
  BY TypedInit, LinedInit, ServedInit, EndingInit
<1>2. Typed /\ Lined /\ Served /\ Ending /\ [Next]_vars => (Typed /\ Lined /\ Served /\ Ending)'
  BY TypedStep, LinedStep, ServedStep, EndingStep
<1> QED
  BY <1>1, <1>2, EndingHolds, PTL DEF Spec

-----------------------------------------------------------------------------
(* Whom an eviction strikes. *)

\* The pool a request was given is in the registry under the request's budget,
\* and behind it are only budgets that were asked for since.
Behind(r) ==
  \E i \in DOMAIN registry :
    /\ registry[i].pool = pool[r] /\ registry[i].budget = ask[r].budget
    /\ \A j \in DOMAIN registry : j > i => registry[j].budget \in since[r]

Many(r) == Cardinality(since[r]) >= Keep

Followed ==
  /\ \A r \in Requests : IsFiniteSet(since[r])
  /\ \A r \in Requests : pool[r] \in Requests => main # "open" \/ Behind(r) \/ Many(r)
  /\ CutByOthersOnly

LEMMA FollowedInit == Init => Followed
<1> SUFFICES ASSUME Init PROVE Followed
  OBVIOUS
<1>1. \A r \in Requests : since[r] = {} /\ pool[r] = None /\ outcome[r] = "none"
  BY DEF Init
<1> QED
  BY <1>1, FS_EmptySet, NamesAssumption DEF Followed, CutByOthersOnly

\* Entries that all have other budgets are no more than the budgets are.
LEMMA AsMany ==
  ASSUME NEW n \in Nat, NEW f, NEW S, IsFiniteSet(S),
         \A i \in 2..(n + 1) : f[i] \in S,
         \A i, j \in 2..(n + 1) : f[i] = f[j] => i = j
  PROVE  Cardinality(S) >= n
<1> DEFINE h == [i \in 1..n |-> f[i + 1]]
<1>1. \A i \in 1..n : i + 1 \in 2..(n + 1)
  OBVIOUS
<1>2. h \in [1..n -> S]
  BY <1>1
<1>3. \A i, j \in 1..n : h[i] = h[j] => i = j
  <2> TAKE i, j \in 1..n
  <2>1. i + 1 = j + 1 => i = j
    OBVIOUS
  <2> QED
    BY <1>1, <2>1
<1> HIDE DEF h
<1>4. h \in Injection(1..n, S)
  BY <1>2, <1>3 DEF Injection, IsInjective
<1>5. Cardinality(1..n) <= Cardinality(S)
  BY <1>4, FS_Injection
<1>6. Cardinality(1..n) = n
  BY FS_Interval
<1>7. Cardinality(S) \in Nat
  BY FS_CardinalityType
<1> QED
  BY <1>5, <1>6, <1>7

\* What a request looks back on, when a pool is given to another.
LEMMA FollowedGive ==
  ASSUME Typed, Lined, Followed, NEW r \in Requests, GivePool(r) PROVE Followed'
<1> USE TypesOf
<1> DEFINE b == ask[r].budget
           at == {i \in DOMAIN registry : registry[i].budget = b}
<1>1. PICK p \in Pools, order \in Seq(Entries), d \in {0, 1} :
           /\ b \in Budgets /\ pc[r] = "pool"
           /\ \/ p = r /\ \A i \in at : shut[registry[i].pool]
              \/ ~shut[p] /\ \E i \in at : registry[i].pool = p
           /\ Len(order) \in Nat \ {0} /\ Len(order) <= Len(registry) + 1
           /\ DOMAIN order = 1..Len(order)
           /\ order[Len(order)] = Entry(b, p) /\ Rest0(registry, at, order)
           /\ d = 1 <=> Len(order) > Keep
           /\ DOMAIN registry' = 1..(Len(order) - d) /\ Len(registry') = Len(order) - d
           /\ \A i \in DOMAIN registry' : i + d \in DOMAIN order /\ registry'[i] = order[i + d]
           /\ pool' = [pool EXCEPT ![r] = p]
           /\ d = 1 => stale' = [stale EXCEPT ![r] = order[1].pool]
           /\ d = 0 => stale' = [stale EXCEPT ![r] = None]
           /\ pc' = [pc EXCEPT ![r] = IF d = 1 THEN "evict" ELSE "use"]
  BY GiveOrder
<1>2. PICK g \in [1..(Len(order) - 1) -> (DOMAIN registry) \ at] :
        /\ \A n \in 1..(Len(order) - 1) : order[n] = registry[g[n]]
        /\ \A m \in (DOMAIN registry) \ at : \E n \in 1..(Len(order) - 1) : g[n] = m
        /\ \A n, m \in 1..(Len(order) - 1) : n < m => g[n] < g[m]
  BY <1>1 DEF Rest0
<1>3. /\ UNCHANGED <<main, outcome, scene, shut>>
      /\ since' = [q \in Requests |->
                     IF pool[q] \notin {None, Checker} /\ ask[q].budget # b
                     THEN since[q] \union {b} ELSE since[q]]
  BY DEF GivePool
<1>4. ask' = ask /\ Keep \in Nat \ {0} /\ DOMAIN registry \subseteq Nat
  BY <1>3, SceneFacts, EntryFacts DEF ask
<1>5. order[Len(order)].pool = p /\ order[Len(order)].budget = b
      /\ Len(order) \in DOMAIN order
  BY <1>1 DEF Entry
<1> HIDE DEF b
<1>6. \A n \in 1..(Len(order) - 1) :
        /\ g[n] \in DOMAIN registry /\ registry[g[n]].budget # b
        /\ order[n] = registry[g[n]] /\ g[n] \in Nat
  BY <1>2, <1>4
<1>7. \A n \in DOMAIN order : n \in 1..(Len(order) - 1) \/ n = Len(order)
  BY <1>1
<1>8. \A q \in Requests : /\ since'[q] = since[q] \/ since'[q] = since[q] \union {b}
                          /\ pool[q] \in Requests /\ ask[q].budget # b => b \in since'[q]
  BY <1>3, NamesAssumption
<1>9. \A q \in Requests : IsFiniteSet(since'[q])
  <2> TAKE q \in Requests
  <2>1. IsFiniteSet(since[q])
    BY DEF Followed
  <2>2. IsFiniteSet(since[q] \union {b})
    BY <2>1, FS_AddElement
  <2> QED
    BY <1>8, <2>1, <2>2
<1>10. \A q \in Requests : Many(q) => Cardinality(since'[q]) >= Keep
  <2> TAKE q \in Requests
  <2>1. IsFiniteSet(since'[q]) /\ since[q] \in SUBSET since'[q] /\ IsFiniteSet(since[q])
    BY <1>8, <1>9 DEF Followed
  <2>2. /\ Cardinality(since[q]) <= Cardinality(since'[q])
        /\ Cardinality(since[q]) \in Nat /\ Cardinality(since'[q]) \in Nat
    BY <2>1, FS_Subset, FS_CardinalityType
  <2> QED
    BY <1>4, <2>2 DEF Many
<1>11. \A n, m \in DOMAIN order : order[n].budget = order[m].budget => n = m
  <2>a. DOMAIN order = 1..Len(order) /\ Len(order) \in Nat
    BY <1>1
  <2> SUFFICES ASSUME NEW n \in DOMAIN order, NEW m \in DOMAIN order, n < m,
                      order[n].budget = order[m].budget
               PROVE  FALSE
    BY <2>a, SMTT(30)
  <2>1. n \in 1..(Len(order) - 1)
    BY <2>a
  <2>2. CASE m = Len(order)
    BY <1>5, <1>6, <2>1, <2>2
  <2>3. CASE m \in 1..(Len(order) - 1)
    <3>1. g[n] = g[m]
      BY <1>6, <2>1, <2>3 DEF Typed, Keyed
    <3>2. g[n] < g[m]
      BY <1>2, <2>1, <2>3
    <3> QED
      BY <1>6, <2>1, <3>1, <3>2
  <2> QED
    BY <1>7, <2>2, <2>3
<1>12. ASSUME NEW n \in DOMAIN order, ~(n = 1 /\ d = 1)
       PROVE  /\ n - d \in DOMAIN registry' /\ registry'[n - d] = order[n]
              /\ \A j \in DOMAIN registry' : j > n - d =>
                   /\ j + d \in DOMAIN order /\ registry'[j] = order[j + d] /\ j + d > n
  <2>1. n - d \in DOMAIN registry' /\ (n - d) + d = n
    BY <1>1, <1>12
  <2>2. registry'[n - d] = order[n]
    BY <1>1, <2>1
  <2>3. \A j \in DOMAIN registry' : j > n - d => j + d > n
    BY <1>1, <2>1
  <2> QED
    BY <1>1, <2>1, <2>2, <2>3
<1>13. ASSUME NEW q \in Requests, pool'[q] \in Requests, main = "open",
              ~(Cardinality(since'[q]) >= Keep)
       PROVE  \E i \in DOMAIN registry' :
                /\ registry'[i].pool = pool'[q] /\ registry'[i].budget = ask[q].budget
                /\ \A j \in DOMAIN registry' : j > i => registry'[j].budget \in since'[q]
  <2>1. ASSUME NEW n \in DOMAIN order, ~(n = 1 /\ d = 1),
               order[n].pool = pool'[q], order[n].budget = ask[q].budget,
               \A m \in DOMAIN order : m > n => order[m].budget \in since'[q]
        PROVE  \E i \in DOMAIN registry' :
                 /\ registry'[i].pool = pool'[q] /\ registry'[i].budget = ask[q].budget
                 /\ \A j \in DOMAIN registry' : j > i => registry'[j].budget \in since'[q]
    <3>1. /\ n - d \in DOMAIN registry' /\ registry'[n - d] = order[n]
          /\ \A j \in DOMAIN registry' : j > n - d =>
               /\ j + d \in DOMAIN order /\ registry'[j] = order[j + d] /\ j + d > n
      BY <1>12, <2>1
    <3>2. \A j \in DOMAIN registry' : j > n - d => registry'[j].budget \in since'[q]
      BY <2>1, <3>1
    <3> QED
      BY <2>1, <3>1, <3>2
  <2>2. ~(Len(order) = 1 /\ d = 1)
    BY <1>1, <1>4
  <2>3. \A m \in DOMAIN order : ~(m > Len(order))
    BY <1>1
  <2>4. CASE q = r
    <3>1. pool'[q] = p /\ ask[q].budget = b
      BY <1>1, <2>4 DEF b
    <3> QED
      BY <1>5, <2>1, <2>2, <2>3, <3>1
  <2>5. CASE q # r
    <3>1. pool'[q] = pool[q] /\ pool[q] \in Requests
      BY <1>1, <1>13, <2>5
    <3>2. Behind(q)
      BY <1>10, <1>13, <3>1 DEF Followed
    <3>3. PICK i \in DOMAIN registry :
            /\ registry[i].pool = pool[q] /\ registry[i].budget = ask[q].budget
            /\ \A j \in DOMAIN registry : j > i => registry[j].budget \in since[q]
      BY <3>2 DEF Behind
    <3>4. CASE i \in at
      <4>1. ~shut[registry[i].pool]
        BY <1>13 DEF Lined, Standing
      <4>2. PICK j \in at : registry[j].pool = p
        BY <1>1, <3>4, <4>1
      <4>3. i = j
        BY <3>4, <4>2 DEF Typed, Keyed
      <4>4. pool[q] = p /\ ask[q].budget = b
        BY <3>3, <3>4, <4>2, <4>3
      <4> QED
        BY <1>5, <2>1, <2>2, <2>3, <3>1, <4>4
    <3>5. CASE i \notin at
      <4>1. PICK n \in 1..(Len(order) - 1) : g[n] = i
        BY <1>2, <3>5
      <4>2. /\ n \in DOMAIN order /\ order[n].pool = pool'[q]
            /\ order[n].budget = ask[q].budget /\ ask[q].budget # b
        BY <1>1, <1>6, <3>1, <3>3, <4>1
      <4>3. b \in since'[q]
        BY <1>8, <3>1, <4>2
      <4>4. \A m \in DOMAIN order : m > n => order[m].budget \in since'[q]
        <5> TAKE m \in DOMAIN order
        <5> HAVE m > n
        <5>1. CASE m = Len(order)
          BY <1>5, <4>3, <5>1
        <5>2. CASE m \in 1..(Len(order) - 1)
          <6>1. g[m] > i /\ order[m].budget = registry[g[m]].budget /\ g[m] \in DOMAIN registry
            BY <1>2, <1>4, <1>6, <4>1, <5>2
          <6> QED
            BY <1>8, <3>3, <6>1
        <5> QED
          BY <1>7, <5>1, <5>2
      <4>5. ~(n = 1 /\ d = 1)
        <5> SUFFICES ASSUME n = 1, d = 1 PROVE FALSE
          OBVIOUS
        <5> DEFINE f == [m \in DOMAIN order |-> order[m].budget]
        <5>1. Keep + 1 <= Len(order)
          BY <1>1, <1>4
        <5>2. \A m \in 2..(Keep + 1) : m \in DOMAIN order /\ m > n
          BY <1>1, <1>4, <5>1
        <5>3. \A m \in 2..(Keep + 1) : f[m] \in since'[q]
          BY <4>4, <5>2
        <5>4. \A m, o \in 2..(Keep + 1) : f[m] = f[o] => m = o
          BY <1>11, <5>2
        <5> HIDE DEF f
        <5>5. Cardinality(since'[q]) >= Keep
          BY <1>4, <1>9, <5>3, <5>4, AsMany
        <5> QED
          BY <1>13, <5>5
      <4> QED
        BY <2>1, <4>2, <4>4, <4>5
    <3> QED
      BY <3>4, <3>5
  <2> QED
    BY <2>4, <2>5
<1>14. (\A q \in Requests : pool[q] \in Requests => main # "open" \/ Behind(q) \/ Many(q))'
  BY <1>3, <1>4, <1>13 DEF Behind, Many
<1>15. CutByOthersOnly'
  <2> SUFFICES ASSUME NEW q \in Requests, outcome[q] \in {"closed", "cut"}, main = "open"
               PROVE  Cardinality(since'[q]) >= Keep
    BY <1>3 DEF CutByOthersOnly
  <2>1. Many(q)
    BY DEF Followed, CutByOthersOnly, Many
  <2> QED
    BY <1>10, <2>1
<1> QED
  BY <1>9, <1>14, <1>15 DEF Followed

\* Who is turned away or cut while the door stands was given a pool that is
\* closed, and so not in the registry any more.
LEMMA FollowedEnd ==
  ASSUME Typed, Lined, Followed, NEW r \in Requests, pool[r] \in Pools,
         main = "open", shut[pool[r]]
  PROVE  Many(r)
<1>1. pool[r] # Checker
  BY DEF Lined, Standing
<1>2. pool[r] \in Requests
  BY <1>1 DEF Pools
<1>3. ~Behind(r)
  BY DEF Behind, Lined, Standing
<1> QED
  BY <1>2, <1>3 DEF Followed

LEMMA FollowedStill ==
  ASSUME Typed, Followed, UNCHANGED <<scene, since>>,
         main' = "open" => main = "open" /\ registry' = registry,
         \A q \in Requests : pool'[q] = pool[q] \/ pool'[q] \notin Requests,
         \A q \in Requests : outcome'[q] \in {"closed", "cut"} =>
           outcome[q] \in {"closed", "cut"} \/ main' # "open" \/ Many(q)
  PROVE  Followed'
<1>1. ask' = ask
  BY DEF ask
<1>2. (\A q \in Requests : pool[q] \in Requests => main # "open" \/ Behind(q) \/ Many(q))'
  BY <1>1 DEF Followed, Behind, Many
<1>3. CutByOthersOnly'
  BY DEF Followed, CutByOthersOnly, Many
<1> QED
  BY <1>2, <1>3 DEF Followed

LEMMA FollowedStep == Typed /\ Lined /\ Served /\ Followed /\ [Next]_vars => Followed'
<1> SUFFICES ASSUME Typed, Lined, Served, Followed, [Next]_vars PROVE Followed'
  OBVIOUS
<1> USE TypesOf
<1>0. outcome \in [Requests -> Outcomes]
  BY DEF Typed, TypeOK, RequestTypes
<1>1. CASE Aside
  <2>1. UNCHANGED <<scene, reqVars, since>>
    BY <1>1, AsideMoves
  <2>2. main' = "open" => main = "open" /\ registry' = registry
    <3>1. CASE Tick \/ Stop \/ Rest \/ UNCHANGED vars \/ \E w \in Requests : Orphan(w)
      BY <3>1 DEF Tick, Stop, Rest, Orphan
    <3>2. CASE CloseRegistry \/ CloseKills \/ CloseChecker \/ Return \/ CloseAtExit
               \/ Leave \/ Exit
      BY <3>2 DEF CloseRegistry, CloseKills, CloseChecker, Return, CloseAtExit, Leave, Exit
    <3>3. CASE \E p \in Pools : CloseNext(p) \/ Finalize(p)
      BY <3>3 DEF CloseNext, Finalize
    <3> QED
      BY <1>1, <3>1, <3>2, <3>3 DEF Aside, MainStep
  <2> QED
    BY <2>1, <2>2, FollowedStill
<1>2. ASSUME NEW r \in Requests, Admit(r) PROVE Followed'
  <2>1. PICK goes \in BOOLEAN :
          LET to == IF goes THEN Route(ask[r]) ELSE <<"done", "limited">> IN
          /\ ask[r] \in Asks /\ outcome' = [outcome EXCEPT ![r] = to[2]]
          /\ pool' = [pool EXCEPT ![r] = IF to[1] = "use" THEN Checker ELSE None]
    BY <1>2, AdmitFacts
  <2>2. Route(ask[r])[2] \notin {"closed", "cut"}
    BY <2>1, KeyFacts
  <2>3. /\ \A q \in Requests : outcome'[q] \in {"closed", "cut"} => outcome[q] \in {"closed", "cut"}
        /\ \A q \in Requests : pool'[q] = pool[q] \/ pool'[q] \notin Requests
    <3>1. CASE goes
      BY <1>0, <2>1, <2>2, <3>1, NamesAssumption
    <3>2. CASE ~goes
      BY <1>0, <2>1, <3>2, NamesAssumption
    <3> QED
      BY <3>1, <3>2
  <2>4. UNCHANGED <<scene, since, main, registry>>
    BY <1>2 DEF Admit
  <2> QED
    BY <2>3, <2>4, FollowedStill
<1>3. ASSUME NEW r \in Requests, Serve(r) PROVE Followed'
  <2>1. CASE GivePool(r)
    BY <2>1, FollowedGive
  <2>2. CASE Evict(r) \/ EvictDrains(r) \/ EvictKills(r) \/ GetPlace(r)
    <3>1. UNCHANGED <<scene, since, main, registry, pool, outcome>>
      BY <2>2 DEF Evict, EvictDrains, EvictKills, GetPlace
    <3> QED
      BY <3>1, FollowedStill
  <2>3. CASE Start(r) \/ RunEnds(r)
    <3>1. /\ UNCHANGED <<scene, since, main, registry, pool>>
          /\ \/ UNCHANGED outcome
             \/ \E how \in {"ok", "not_ok"} : outcome' = [outcome EXCEPT ![r] = how]
      BY <2>3 DEF Start, RunEnds, Ends
    <3> QED
      BY <1>0, <3>1, FollowedStill
  <2>4. CASE TurnedAway(r) \/ Register(r) \/ Cut(r)
    <3>1. /\ UNCHANGED <<scene, since, main, registry, pool>>
          /\ \/ UNCHANGED outcome
             \/ \E how \in {"closed", "cut"} : outcome' = [outcome EXCEPT ![r] = how]
      BY <2>4 DEF TurnedAway, Register, Cut, Ends
    <3>2. outcome' # outcome => main # "open" \/ Many(r)
      <4> SUFFICES ASSUME outcome' # outcome, main = "open" PROVE Many(r)
        OBVIOUS
      <4>1. pool[r] \in Pools
        BY <2>4 DEF TurnedAway, Register, Cut, Typed, Given
      <4>2. shut[pool[r]]
        <5>1. CASE TurnedAway(r)
          BY <5>1 DEF TurnedAway
        <5>2. CASE Register(r)
          BY <5>2 DEF Register
        <5>3. CASE Cut(r)
          BY <5>3 DEF Cut, Served, Serving
        <5> QED
          BY <2>4, <5>1, <5>2, <5>3
      <4> QED
        BY <4>1, <4>2, FollowedEnd
    <3>3. \A q \in Requests : outcome'[q] \in {"closed", "cut"} =>
            outcome[q] \in {"closed", "cut"} \/ main' # "open" \/ Many(q)
      BY <1>0, <3>1, <3>2
    <3> QED
      BY <3>1, <3>3, FollowedStill
  <2> QED
    BY <1>3, <2>1, <2>2, <2>3, <2>4 DEF Serve
<1>4. ASSUME NEW r \in Requests, Arrive(r) PROVE Followed'
  BY <1>4, ArriveMoves, FollowedStill
<1> QED
  BY <1>1, <1>2, <1>3, <1>4, DoorSteps

\* While the door stands, nobody's pool is closed under it but by as many
\* other budgets as the registry keeps.
THEOREM OnlyOthersCut == Spec => []CutByOthersOnly
<1>1. Init => Typed /\ Lined /\ Served /\ Followed
  BY TypedInit, LinedInit, ServedInit, FollowedInit
<1>2. Typed /\ Lined /\ Served /\ Followed /\ [Next]_vars
        => (Typed /\ Lined /\ Served /\ Followed)'
  BY TypedStep, LinedStep, ServedStep, FollowedStep
<1> QED
  BY <1>1, <1>2, PTL DEF Spec, Followed

=============================================================================
