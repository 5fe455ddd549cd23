----------------------------- MODULE RelayProofs -----------------------------
(***************************************************************************)
(* What Relay keeps of a run, for any tools, lines of a host, frames, runs *)
(* one after another and notes.  Its parts share no variable but through   *)
(* the actions of Relay, so each has an inductive invariant of its own:    *)
(* the entries a worker streams (Listed), the frames of sabline-rt         *)
(* (Framed), the workers the clocks kill (Caused), the calls of a session  *)
(* (Answered), what they cost (Paid), what is written to its host (Doored) *)
(* and what is recorded (Recorded).                                        *)
(***************************************************************************)
EXTENDS Relay, FiniteSetTheorems, TLAPS

USE DEF recorderVars, relayVars, sessionVars, lineVars, toolVars, rtVars,
        clockVars, hostVars, callVars, runVars

-----------------------------------------------------------------------------
(* The remainder that says when an entry goes to the parent. *)

LEMMA Remainder ==
  ASSUME NEW y \in Nat, NEW E \in Nat \ {0}, NEW q \in Nat, NEW r \in 0..(E - 1),
         y = E * q + r
  PROVE  y % E = r
<1> DEFINE p == y \div E  t == y % E
<1>1. p \in Nat /\ t \in 0..(E - 1) /\ y = E * p + t
  OBVIOUS
<1>2. \A a, b \in Nat : a < b => E * a + E <= E * b
  <2> TAKE a, b \in Nat
  <2>1. E * (a + 1) = E * a + E
    OBVIOUS
  <2>2. a < b => E * (a + 1) <= E * b
    OBVIOUS
  <2> QED
    BY <2>1, <2>2
<1>3. ~(p < q) /\ ~(q < p)
  BY <1>1, <1>2
<1>4. p = q
  BY <1>1, <1>3
<1> QED
  BY <1>1, <1>4
LEMMA ModStep ==
  ASSUME NEW x \in Nat, NEW E \in Nat \ {0}
  PROVE  (x + 1) % E = IF x % E = E - 1 THEN 0 ELSE (x % E) + 1
<1> DEFINE p == x \div E  t == x % E
<1>1. p \in Nat /\ t \in 0..(E - 1) /\ x = E * p + t
  OBVIOUS
<1>2. CASE t = E - 1
  <2>1. /\ x + 1 = E * (p + 1) + 0
        /\ x + 1 \in Nat /\ p + 1 \in Nat /\ 0 \in 0..(E - 1)
    BY <1>1, <1>2
  <2>2. (x + 1) % E = 0
    BY ONLY <2>1, Remainder, E \in Nat \ {0}
  <2> QED
    BY <1>2, <2>2
<1>3. CASE t # E - 1
  <2>1. x + 1 = E * p + (t + 1) /\ t + 1 \in 0..(E - 1)
    BY <1>1, <1>3
  <2>2. (x + 1) % E = t + 1
    BY <1>1, <2>1, Remainder
  <2> QED
    BY <1>3, <2>2
<1> QED
  BY <1>2, <1>3

-----------------------------------------------------------------------------
(* Recorder: the entries a worker streams. *)

RecTyped ==
  /\ times \in [Sites -> Nat] /\ kept \in [Sites -> Nat]
  /\ stream \in Seq([site : Sites, times : Nat])
  /\ sending \subseteq Sites /\ mute \in BOOLEAN /\ dropped \in BOOLEAN

\* of t notes, none after the nth was to be streamed
Near(t, n) == n > 0 /\ n + (t % Every) >= t

\* the notes of a site but the one whose entry is being written
Settled(s) == IF s \in sending THEN times[s] - 1 ELSE times[s]

\* the last note of a site that was to be streamed is kept or on the pipe
Streamed(s) ==
  \/ Settled(s) = 0 \/ Near(Settled(s), kept[s])
  \/ \E i \in DOMAIN stream : stream[i].site = s /\ Near(Settled(s), stream[i].times)

\* What is kept or on the pipe happened, and one of them is the last that was
\* to be streamed, of a worker that streams, and with no entry dropped.
Listed ==
  /\ RecTyped
  /\ \A s \in Sites : kept[s] <= times[s]
  /\ \A i \in DOMAIN stream : stream[i].times <= times[stream[i].site]
  /\ \A s, q \in sending : s = q
  /\ \A s \in sending : times[s] > 0
  /\ mute \/ dropped \/ \A s \in Sites : Streamed(s)
  /\ ended \in {"closed", "made"} => stream = <<>>
  /\ dropped => ended \in {"closed", "made"}

LEMMA Element == ASSUME NEW S, NEW s \in Seq(S), NEW i \in DOMAIN s PROVE s[i] \in S
  OBVIOUS

LEMMA EntryTyped ==
  ASSUME RecTyped
  PROVE  \A i \in DOMAIN stream : /\ stream[i].site \in Sites
                                  /\ stream[i].times \in Nat
<1> TAKE i \in DOMAIN stream
<1>1. stream[i] \in [site : Sites, times : Nat]
  BY Element DEF RecTyped
<1> QED
  BY <1>1

LEMMA ListedInit == Init => Listed
<1> SUFFICES ASSUME Init PROVE Listed
  OBVIOUS
<1>1. /\ times = [s \in Sites |-> 0] /\ sending = {} /\ mute = FALSE
      /\ stream = <<>> /\ dropped = FALSE /\ kept = [s \in Sites |-> 0]
      /\ ended = "no"
  BY DEF Init, RecorderInit
<1>2. \A s \in Sites : Streamed(s)
  BY <1>1 DEF Streamed, Settled
<1>3. RecTyped /\ DOMAIN stream = {}
  <2>1. <<>> \in Seq([site : Sites, times : Nat]) /\ DOMAIN <<>> = {}
    OBVIOUS
  <2> QED
    BY <1>1, <2>1 DEF RecTyped
<1> QED
  BY <1>1, <1>2, <1>3 DEF Listed

LEMMA RecorderMoves ==
  ASSUME [Next]_vars
  PROVE  \/ UNCHANGED recorderVars
         \/ (\E s \in Sites : Note(s)) \/ Sends \/ Takes \/ Answer \/ Kill
         \/ Disposes \/ Receipt
  BY DEF Next, vars, HostActs, RtActs, CallerActs, ReadsFrame, CallsActs, Over,
         WorkerActs, PackageActs, PoolActs, CommandAsks, CommandAnswered,
         CommandSays

\* A note is counted: what was streamed of its site is as near as before, or
\* its entry is due.
LEMMA ListedNote == ASSUME Listed, NEW s \in Sites, Note(s) PROVE Listed'
<1> USE RecorderAssumption DEF Listed, RecTyped
<1>1. /\ times' = [times EXCEPT ![s] = times[s] + 1] /\ sending = {}
      /\ UNCHANGED <<mute, stream, dropped, kept, ended>> /\ ended = "no"
  BY DEF Note
<1>2. /\ times'[s] = times[s] + 1 /\ times' \in [Sites -> Nat]
      /\ \A r \in Sites \ {s} : times'[r] = times[r]
      /\ \A r \in Sites, n \in Nat : n <= times[r] => n <= times'[r]
  BY <1>1
<1>3. sending' \subseteq {s}
  BY DEF Note
<1>4. \A i \in DOMAIN stream : stream[i].times <= times'[stream[i].site]
  <2> TAKE i \in DOMAIN stream
  <2>1. stream[i].site \in Sites /\ stream[i].times \in Nat
    BY EntryTyped
  <2> QED
    BY <1>2, <2>1
<1>5. \A r \in Sites : ~mute /\ ~dropped => Streamed(r)'
  <2> SUFFICES ASSUME NEW r \in Sites, ~mute, ~dropped PROVE Streamed(r)'
    OBVIOUS
  <2>1. Streamed(r)
    OBVIOUS
  <2>2. CASE Settled(r)' = Settled(r)
    BY <1>1, <2>1, <2>2 DEF Streamed, Near
  <2>3. CASE Settled(r)' # Settled(r)
    <3>1. r = s /\ sending' = {} /\ Settled(r) = times[r] /\ Settled(r)' = times'[r]
      BY <1>1, <1>2, <1>3, <2>3 DEF Settled
    <3>2. ~(times'[s] = 1 \/ times'[s] % Every = 0)
      BY <3>1 DEF Note
    <3>3. times'[s] % Every = (times[s] % Every) + 1
      BY <1>2, <3>2, ModStep
    <3>4. times[s] % Every \in 0..(Every - 1) /\ times[s] # 0
      <4>1. times[s] \in Nat
        OBVIOUS
      <4>2. times[s] # 0
        BY <1>2, <3>2, <4>1
      <4> QED
        BY <4>1, <4>2
    <3>5. \A n \in Nat : Near(times[s], n) => Near(times'[s], n)
      BY <1>2, <3>3, <3>4 DEF Near
    <3>6. \A i \in DOMAIN stream : stream[i].times \in Nat
      BY EntryTyped
    <3>7. CASE Near(times[s], kept[s])
      BY <1>1, <3>1, <3>5, <3>7 DEF Streamed, Near
    <3>8. ASSUME NEW i \in DOMAIN stream, stream[i].site = s,
                 Near(times[s], stream[i].times)
          PROVE  Streamed(r)'
      <4>1. Near(times'[s], stream[i].times)
        BY <3>5, <3>6, <3>8
      <4>2. stream' = stream
        BY <1>1
      <4> QED
        BY <3>1, <3>8, <4>1, <4>2 DEF Streamed, Near
    <3> QED
      BY <2>1, <3>1, <3>4, <3>7, <3>8 DEF Streamed
  <2> QED
    BY <2>2, <2>3
<1> QED
  BY <1>1, <1>2, <1>3, <1>4, <1>5

\* Its entry is written, and is the nearest there can be; or none is any more.
LEMMA ListedSends == ASSUME Listed, Sends PROVE Listed'
<1> USE RecorderAssumption DEF Listed, RecTyped
<1>1. /\ UNCHANGED <<times, notes, dropped, kept, ended>> /\ sending' = {}
      /\ ended = "no"
  BY DEF Sends
<1>2. PICK s \in sending : \/ stream' = Append(stream, Entry(s, times[s])) /\ mute' = mute
                           \/ mute' = TRUE /\ stream' = stream
  BY DEF Sends
<1>3. CASE mute' = TRUE /\ stream' = stream
  BY <1>1, <1>3
<1>4. CASE stream' = Append(stream, Entry(s, times[s])) /\ mute' = mute
  <2> DEFINE e == Entry(s, times[s])
  <2>1. e \in [site : Sites, times : Nat] /\ e.site = s /\ e.times = times[s]
    BY DEF Entry
  <2>2. stream' = Append(stream, e)
    BY <1>4
  <2>3. stream' \in Seq([site : Sites, times : Nat])
    BY <2>1, <2>2
  <2>4. /\ DOMAIN stream' = 1..(Len(stream) + 1) /\ DOMAIN stream = 1..Len(stream)
        /\ \A i \in DOMAIN stream : stream'[i] = stream[i]
        /\ stream'[Len(stream) + 1] = e /\ Len(stream) \in Nat
    BY <2>1, <2>2, SMTT(30)
  <2> HIDE DEF e
  <2>5. \A i \in DOMAIN stream' : stream'[i].times <= times'[stream'[i].site]
    <3> TAKE i \in DOMAIN stream'
    <3>1. CASE i = Len(stream) + 1
      BY <1>1, <2>1, <2>4, <3>1
    <3>2. CASE i \in DOMAIN stream
      BY <1>1, <2>4, <3>2
    <3> QED
      BY <2>4, <3>1, <3>2
  <2>6. Near(times[s], times[s])
    <3>1. times[s] \in Nat /\ times[s] > 0 /\ times[s] % Every \in 0..(Every - 1)
      OBVIOUS
    <3> QED
      BY <3>1 DEF Near
  <2>7. \A r \in Sites : ~mute /\ ~dropped => Streamed(r)'
    <3> SUFFICES ASSUME NEW r \in Sites, ~mute, ~dropped PROVE Streamed(r)'
      OBVIOUS
    <3>1. Settled(r)' = times[r]
      BY <1>1 DEF Settled
    <3>2. CASE r = s
      <4>1. /\ Len(stream) + 1 \in DOMAIN stream'
            /\ stream'[Len(stream) + 1].site = s
            /\ stream'[Len(stream) + 1].times = times[s]
        BY <2>1, <2>4
      <4> QED
        BY <1>1, <2>6, <3>1, <3>2, <4>1 DEF Streamed, Near
    <3>3. CASE r # s
      <4>1. Settled(r) = times[r] /\ Streamed(r)
        BY <1>2, <3>3 DEF Settled
      <4>2. \A i \in DOMAIN stream : i \in DOMAIN stream' /\ stream'[i] = stream[i]
        BY <2>4
      <4>3. kept' = kept /\ times' = times
        BY <1>1
      <4> QED
        BY ONLY <3>1, <4>1, <4>2, <4>3 DEF Streamed, Near
    <3> QED
      BY <3>2, <3>3
  <2> QED
    BY <1>1, <1>4, <2>3, <2>5, <2>7
<1> QED
  BY <1>2, <1>3, <1>4

\* An entry is kept that was on the pipe.
LEMMA ListedTakes == ASSUME Listed, Takes PROVE Listed'
<1> USE RecorderAssumption DEF Listed, RecTyped
<1> DEFINE h == Head(stream)
<1>1. /\ stream # <<>> /\ stream' = Tail(stream)
      /\ UNCHANGED <<times, notes, sending, mute, dropped, ended>>
      /\ kept' = [kept EXCEPT ![h.site] =
                    IF h.times > kept[h.site] THEN h.times ELSE kept[h.site]]
  BY DEF Takes, Take
<1>2. stream' \in Seq([site : Sites, times : Nat])
  BY <1>1
<1>3. /\ Len(stream) \in Nat \ {0} /\ DOMAIN stream = 1..Len(stream)
      /\ DOMAIN stream' = 1..(Len(stream) - 1) /\ h = stream[1]
      /\ \A i \in DOMAIN stream' : stream'[i] = stream[i + 1]
  BY <1>1
<1>4. h.times <= times[h.site] /\ h.site \in Sites /\ h.times \in Nat
  <2>1. 1 \in DOMAIN stream
    BY <1>3
  <2>2. stream[1].times <= times[stream[1].site]
    BY <2>1
  <2>3. stream[1].site \in Sites /\ stream[1].times \in Nat
    BY <2>1, EntryTyped
  <2> QED
    BY <1>3, <2>2, <2>3
<1> HIDE DEF h
<1>5. /\ kept' \in [Sites -> Nat]
      /\ \A s \in Sites : kept[s] <= kept'[s] /\ kept'[s] <= times[s]
      /\ h.times <= kept'[h.site]
  BY <1>1, <1>4
<1>6. \A s \in Sites : ~mute /\ ~dropped => Streamed(s)'
  <2> SUFFICES ASSUME NEW s \in Sites, ~mute, ~dropped PROVE Streamed(s)'
    OBVIOUS
  <2> DEFINE t == Settled(s)
  <2>1. t \in Nat /\ t % Every \in 0..(Every - 1) /\ Settled(s)' = t
    <3>1. t \in Nat
      BY DEF Settled
    <3>2. Settled(s)' = t
      BY <1>1 DEF Settled
    <3> QED
      BY <3>1, <3>2
  <2>2. Streamed(s)
    OBVIOUS
  <2>3. t = 0 \/ Near(t, kept[s])
        \/ \E i \in DOMAIN stream : stream[i].site = s /\ Near(t, stream[i].times)
    BY <2>2 DEF Streamed
  <2>4. SUFFICES \/ t = 0 \/ Near(t, kept'[s])
                 \/ \E j \in DOMAIN stream' : stream'[j].site = s
                                              /\ Near(t, stream'[j].times)
    BY <2>1 DEF Streamed, Near
  <2> HIDE DEF t
  <2>5. \A m, n \in Nat : Near(t, m) /\ m <= n => Near(t, n)
    BY <2>1 DEF Near
  <2>6. CASE Near(t, kept[s])
    <3>1. kept[s] \in Nat /\ kept'[s] \in Nat /\ kept[s] <= kept'[s]
      BY <1>5
    <3> QED
      BY <2>5, <2>6, <3>1
  <2>7. ASSUME NEW i \in DOMAIN stream, stream[i].site = s, Near(t, stream[i].times)
        PROVE  \/ Near(t, kept'[s])
               \/ \E j \in DOMAIN stream' : stream'[j].site = s
                                            /\ Near(t, stream'[j].times)
    <3>1. CASE i = 1
      <4>1. /\ h.site = s /\ Near(t, h.times) /\ h.times \in Nat
            /\ kept'[s] \in Nat /\ h.times <= kept'[s]
        BY <1>3, <1>4, <1>5, <2>7, <3>1
      <4> QED
        BY <2>5, <4>1
    <3>2. CASE i # 1
      <4>1. i \in 1..Len(stream) /\ i # 1
        BY <1>3, <3>2
      <4>2. i - 1 \in DOMAIN stream' /\ (i - 1) + 1 = i
        BY <1>3, <4>1, SMTT(30)
      <4>3. i - 1 \in DOMAIN stream' /\ stream'[i - 1] = stream[i]
        BY <1>3, <4>2
      <4> QED
        BY <2>7, <4>3
    <3> QED
      BY <3>1, <3>2
  <2> QED
    BY <2>3, <2>6, <2>7
<1>7. \A i \in DOMAIN stream' : stream'[i].times <= times'[stream'[i].site]
  <2> TAKE i \in DOMAIN stream'
  <2>1. i + 1 \in DOMAIN stream /\ stream'[i] = stream[i + 1]
    BY <1>3, SMTT(30)
  <2> QED
    BY <1>1, <2>1
<1>8. ended' \notin {"closed", "made"}
  BY <1>1
<1> QED
  BY <1>1, <1>2, <1>5, <1>6, <1>7, <1>8

\* The pipe is closed: it was empty, or entries were dropped.
LEMMA ListedDisposes == ASSUME Listed, Disposes PROVE Listed'
<1>1. /\ UNCHANGED <<times, notes, sending, mute, kept>> /\ stream' = <<>>
      /\ dropped' = (stream # <<>>) /\ ended \in {"answered", "killed"}
  BY DEF Disposes
<1>2. /\ <<>> \in Seq([site : Sites, times : Nat]) /\ DOMAIN <<>> = {}
  OBVIOUS
<1>3. ASSUME ~dropped', ~mute, NEW s \in Sites PROVE Streamed(s)'
  <2>1. stream' = stream /\ ~dropped
    BY <1>1, <1>3 DEF Listed
  <2>2. Streamed(s)
    BY <1>3, <2>1 DEF Listed
  <2> QED
    BY <1>1, <2>1, <2>2 DEF Streamed, Settled, Near
<1>4. dropped' \in BOOLEAN /\ ended' = "closed"
  BY <1>1 DEF Disposes
<1> QED
  BY <1>1, <1>2, <1>3, <1>4 DEF Listed, RecTyped

LEMMA ListedStep == Listed /\ [Next]_vars => Listed'
<1> SUFFICES ASSUME Listed, [Next]_vars PROVE Listed'
  OBVIOUS
<1>1. CASE UNCHANGED recorderVars \/ Answer \/ Kill \/ Receipt
  <2>1. /\ UNCHANGED <<times, notes, sending, mute, stream, dropped, kept>>
        /\ ended' \in {"closed", "made"} => stream = <<>>
        /\ dropped => ended' \in {"closed", "made"}
    BY <1>1 DEF Answer, Kill, Receipt, Listed
  <2>2. \A s \in Sites : Streamed(s)' <=> Streamed(s)
    BY <2>1 DEF Streamed, Settled, Near
  <2> QED
    BY <2>1, <2>2 DEF Listed, RecTyped
<1> QED
  BY <1>1, RecorderMoves, ListedNote, ListedSends, ListedTakes, ListedDisposes

\* However the run of a worker, the end of it and what the parent reads
\* interleave, its receipt lists only what happened; and where nothing kept
\* the worker from streaming and no pipe was closed with entries on it, it
\* leaves out no place but the one whose entry was being written, and is short
\* by no more than the stream's step, for any places and step.
THEOREM ReceiptAtLeast == Spec => []AtLeast
<1>1. Listed => AtLeast
  <2> SUFFICES ASSUME Listed, NEW s \in Sites, ended = "made", ~mute, ~dropped
               PROVE  IF s \in sending THEN times[s] <= kept[s] + Every
                      ELSE (times[s] > 0 => kept[s] > 0) /\ times[s] < kept[s] + Every
    BY DEF AtLeast, Listed
  <2> USE RecorderAssumption DEF Listed, RecTyped
  <2> DEFINE t == Settled(s)
  <2>1. t = 0 \/ Near(t, kept[s])
    <3>1. Streamed(s) /\ stream = <<>> /\ DOMAIN <<>> = {}
      OBVIOUS
    <3> QED
      BY <3>1 DEF Streamed
  <2>2. /\ times[s] \in Nat /\ kept[s] \in Nat /\ t \in Nat
        /\ t = IF s \in sending THEN times[s] - 1 ELSE times[s]
    BY DEF Settled
  <2> HIDE DEF t
  <2>3. t % Every \in 0..(Every - 1)
    BY <2>2
  <2> QED
    BY <2>1, <2>2, <2>3 DEF Near
<1> QED
  BY <1>1, ListedInit, ListedStep, PTL DEF Spec

-----------------------------------------------------------------------------
(* RtRun: what one step does to the run. *)

\* the session of the command line's call, while the caller waits on it
Waits == /\ caller = "hosts" /\ caller' \in {"hosts", "says"}
         /\ UNCHANGED <<turn, got, told, heard, rtVars, clockVars, hostVars>>

RtMoves == \/ Makes("tells") \/ Makes("prints") \/ Asks \/ Ends \/ Writes
           \/ Exits \/ Dies
ClockMoves(t) == \/ ClockFires(t) \/ ClockLooks(t) \/ ClockFlags(t)
                 \/ ClockKills(t) \/ ClockTells(t)
CallerMoves == \/ Begins \/ Routed(TRUE) \/ Routed(FALSE) \/ NotRouted \/ Reads
               \/ ReadsNothing \/ Leaves \/ Reaps \/ Relays \/ Relayed
               \/ Says("runs") \/ Says("stops") \/ Waits

LEMMA RunMoves ==
  ASSUME [Next]_vars
  PROVE  \/ UNCHANGED runVars \/ RtMoves \/ CallerMoves
         \/ \E t \in Runs : ClockMoves(t) \/ Answers(t) \/ Faults(t)
<1>1. CASE UNCHANGED vars
  BY <1>1 DEF vars
<1>2. CASE HostActs \/ PackageActs \/ Over \/ WorkerActs
  BY <1>2 DEF HostActs, PackageActs, Over, WorkerActs
<1>3. CASE RtActs
  BY <1>3 DEF RtActs, RtMoves
<1>4. CASE CallerActs \/ ReadsFrame
  BY <1>4 DEF CallerActs, ReadsFrame, CallerMoves
<1>5. CASE PoolActs
  BY <1>5 DEF PoolActs, CallerMoves, ClockMoves
<1>6. CASE CommandAsks \/ CommandAnswered \/ CommandSays
  BY <1>6 DEF CommandAsks, CommandAnswered, CommandSays, CallerMoves, Waits, Moves
<1> QED
  BY <1>1, <1>2, <1>3, <1>4, <1>5, <1>6 DEF Next, CallsActs

\* The variables of a run stay in their types, a run has a worker named by a
\* run no later, and none is known of a run to come.
RunTyped ==
  /\ RtTypeOK
  /\ \A t \in Runs : t <= turn => worker[t] \in 1..t
  /\ \A t \in Runs : t > turn => /\ rt[t] = "off" /\ told[t] = "none"
                                 /\ clock[t] = "off" /\ ~stopped[t]
  /\ caller # "idle" => turn > 0

LEMMA RunTypedInit == Init => RunTyped
<1> SUFFICES ASSUME Init PROVE RunTyped
  OBVIOUS
<1> USE RtAssumption DEF Init, RtInit
<1>0. <<>> \in Seq(Kinds)
  OBVIOUS
<1>1. ProgramTypes /\ ClockTypes
  BY <1>0 DEF ProgramTypes, ClockTypes
<1>2. HostTypes /\ CallerTypes
  BY DEF HostTypes, CallerTypes
<1>3. \A t \in Runs : t \in Nat \ {0}
  BY DEF Runs
<1> QED
  BY <1>1, <1>2, <1>3 DEF RunTyped, RtTypeOK

LEMMA RunNumbers ==
  ASSUME RunTyped
  PROVE  /\ Runs \subseteq Nat \ {0} /\ turn \in Nat
         /\ turn > 0 => turn \in Runs /\ worker[turn] \in Runs /\ worker[turn] <= turn
         /\ turn < Turns => turn + 1 \in Runs
         /\ \A t \in Runs : \A w \in 1..t : w \in Runs
  BY RtAssumption DEF RunTyped, RtTypeOK, CallerTypes, Runs

LEMMA OneOf == ASSUME NEW S, NEW x \in S PROVE <<x>> \in Seq(S)
  OBVIOUS

LEMMA ManyTyped ==
  ASSUME NEW S, NEW f \in Seq(S), NEW k
  PROVE  Many(k, f) \in Nat /\ IsFiniteSet({i \in DOMAIN f : f[i] = k})
<1>1. {i \in DOMAIN f : f[i] = k} \in SUBSET (1..Len(f)) /\ Len(f) \in Nat
  OBVIOUS
<1>2. IsFiniteSet({i \in DOMAIN f : f[i] = k})
  BY <1>1, FS_Interval, FS_Subset
<1> QED
  BY <1>2, FS_CardinalityType DEF Many

\* The place in a run is one at which there is a run.
LEMMA Placed ==
  ASSUME RunTyped, RtMoves \/ (CallerMoves /\ ~Begins)
  PROVE  turn \in Runs /\ worker[turn] \in Runs /\ worker[turn] <= turn
<1>1. turn > 0
  BY DEF RunTyped, RtMoves, CallerMoves, Makes, Asks, Ends, Writes, Exits, Dies,
         Routed, NotRouted, Reads, ReadsNothing, Leaves, Reaps, Relays, Relayed,
         Says, Waits
<1> QED
  BY <1>1, RunNumbers

LEMMA ProgramStep == ASSUME RunTyped, [Next]_vars PROVE ProgramTypes'
<1> USE DEF ProgramTypes
<1>0. ProgramTypes /\ <<>> \in Seq(Kinds)
  BY DEF RunTyped, RtTypeOK
<1> USE <1>0
<1>1. CASE RtMoves
  <2>0. turn \in Runs
    BY <1>1, Placed
  <2>1. CASE Makes("tells") \/ Makes("prints")
    <3>1. "tells" \in Kinds /\ "prints" \in Kinds
      BY DEF Kinds
    <3>2. channel' \in Seq(Kinds)
      <4>1. channel' = Append(channel, "tells") \/ channel' = Append(channel, "prints")
        BY <2>1 DEF Makes
      <4> QED
        BY <3>1, <4>1, SMTT(30)
    <3> QED
      BY <2>1, <3>2 DEF Makes
  <2>2. CASE Ends
    BY <2>0, <2>2 DEF Ends, Kinds
  <2>3. CASE Asks
    BY <2>0, <2>3 DEF Asks, Kinds
  <2>4. CASE Writes
    <3>1. channel # <<>>
      BY <2>4 DEF Writes
    <3>2. Head(channel) \in Kinds /\ Tail(channel) \in Seq(Kinds)
      BY <3>1
    <3>3. Many("tells", <<Head(channel)>>) \in Nat
      BY <3>2, OneOf, ManyTyped
    <3> QED
      BY <2>4, <3>2, <3>3 DEF Writes
  <2>5. CASE Exits
    BY <2>0, <2>5 DEF Exits
  <2>6. CASE Dies
    <3>1. rt' \in [Runs -> {"off", "runs", "asks", "stops", "ends", "gone"}]
      BY <2>0, <2>6 DEF Dies, Killed
    <3> QED
      BY <2>6, <3>1 DEF Dies
  <2> QED
    BY <1>1, <2>1, <2>2, <2>3, <2>4, <2>5, <2>6 DEF RtMoves
<1>2. CASE Begins
  BY <1>2 DEF Begins
<1>3. CASE CallerMoves /\ ~Begins
  <2>0. turn \in Runs
    BY <1>3, Placed
  <2>1. CASE Routed(TRUE) \/ Routed(FALSE)
    BY <2>0, <2>1 DEF Routed
  <2>2. CASE Reads
    <3>1. pipe' = Tail(pipe) /\ pipe # <<>>
      BY <2>2 DEF Reads
    <3>2. pipe' \in Seq(Kinds)
      BY <3>1
    <3> QED
      BY <2>2, <3>2 DEF Reads
  <2>3. CASE Leaves
    <3>1. \/ UNCHANGED <<rt, channel>>
          \/ Killed(turn) /\ channel' = <<>>
      BY <2>3 DEF Leaves
    <3>2. rt' \in [Runs -> {"off", "runs", "asks", "stops", "ends", "gone"}]
      BY <2>0, <3>1 DEF Killed
    <3> QED
      BY <2>3, <3>1, <3>2 DEF Leaves
  <2>4. CASE Says("runs") \/ Says("stops")
    <3>1. rt' = rt \/ rt' = [rt EXCEPT ![turn] = "runs"]
          \/ rt' = [rt EXCEPT ![turn] = "stops"]
      BY <2>4 DEF Says
    <3> QED
      BY <2>4, <3>1 DEF Says
  <2>5. CASE NotRouted \/ ReadsNothing \/ Reaps \/ Relays \/ Relayed \/ Waits
    <3>1. UNCHANGED rtVars
      BY <2>5 DEF NotRouted, ReadsNothing, Reaps, Relays, Relayed, HostGone, Waits
    <3> QED
      BY <3>1
  <2> QED
    BY <1>3, <2>1, <2>2, <2>3, <2>4, <2>5 DEF CallerMoves
<1>4. ASSUME NEW t \in Runs, ClockMoves(t) \/ Answers(t) \/ Faults(t)
      PROVE  ProgramTypes'
  <2>1. CASE ClockKills(t)
    BY <2>1 DEF ClockKills, Killed
  <2>2. CASE ~ClockKills(t)
    BY <1>4, <2>2 DEF ClockMoves, ClockFires, ClockLooks, ClockFlags, ClockTells, Answers, Faults
  <2> QED
    BY <2>1, <2>2
<1>5. CASE UNCHANGED runVars
  BY <1>5
<1> QED
  BY <1>1, <1>2, <1>3, <1>4, <1>5, RunMoves

LEMMA ClockStep == ASSUME RunTyped, [Next]_vars PROVE ClockTypes'
<1> USE DEF ClockTypes
<1>0. ClockTypes
  BY DEF RunTyped, RtTypeOK
<1> USE <1>0
<1>1. CASE Routed(TRUE) \/ Routed(FALSE)
  BY <1>1 DEF Routed
<1>2. CASE Leaves
  <2>1. \/ clock' = clock \/ clock' = [clock EXCEPT ![turn] = "off"]
    BY <1>2 DEF Leaves
  <2> QED
    BY <1>2, <2>1 DEF Leaves
<1>3. ASSUME NEW t \in Runs, ClockMoves(t) PROVE ClockTypes'
  <2>1. CASE ClockFires(t)
    BY <2>1 DEF ClockFires
  <2>2. CASE ClockLooks(t) \/ ClockFlags(t)
    BY <2>2 DEF ClockLooks, ClockFlags, Alive
  <2>3. CASE ClockKills(t) \/ ClockTells(t)
    BY <2>3 DEF ClockKills, ClockTells
  <2> QED
    BY <1>3, <2>1, <2>2, <2>3 DEF ClockMoves
<1>4. CASE UNCHANGED clockVars
  BY <1>4
<1>5. \/ UNCHANGED clockVars \/ Routed(TRUE) \/ Routed(FALSE) \/ Leaves
      \/ \E t \in Runs : ClockMoves(t)
  BY RunMoves
  DEF RtMoves, CallerMoves, Makes, Asks, Ends, Writes, Exits, Dies, NotRouted,
      Reads, ReadsNothing, Reaps, Relays, Relayed, HostGone, Says, Waits,
      Begins, Answers, Faults
<1> QED
  BY <1>1, <1>2, <1>3, <1>4, <1>5

LEMMA HostStep == ASSUME RunTyped, [Next]_vars PROVE HostTypes'
<1> USE DEF HostTypes
<1>0. HostTypes
  BY DEF RunTyped, RtTypeOK
<1> USE <1>0
<1>1. CASE Begins
  <2>1. turn + 1 \in Runs /\ Kept \in Runs
    BY <1>1, RunNumbers DEF Begins, Kept
  <2>2. Kept \in 0..Turns
    BY <2>1, RtAssumption DEF Runs
  <2> QED
    BY <1>1, <2>1, <2>2 DEF Begins
<1>2. CASE Reaps \/ Relays \/ Relayed
  <2>1. UNCHANGED <<worker, fault, late, cut>>
    BY <1>2 DEF Reaps, Relays, Relayed, HostGone
  <2>2. \/ host' = host
        \/ \E to \in {"gone", "asked", "idle"} :
             host' = [host EXCEPT ![worker[turn]] = to]
    BY <1>2 DEF Reaps, Relays, Relayed, HostGone
  <2> QED
    BY <2>1, <2>2
<1>3. ASSUME NEW t \in Runs,
             ClockKills(t) \/ ClockTells(t) \/ Answers(t) \/ Faults(t)
      PROVE  HostTypes'
  <2>1. CASE ClockTells(t)
    <3>1. worker[t] \in Runs
      BY <2>1, RunNumbers DEF RunTyped, ClockTells
    <3> QED
      BY <2>1, <3>1 DEF ClockTells
  <2>2. CASE Answers(t) \/ Faults(t)
    BY <2>2 DEF Answers, Faults
  <2>3. CASE ClockKills(t)
    BY <2>3 DEF ClockKills
  <2> QED
    BY <1>3, <2>1, <2>2, <2>3
<1>4. CASE UNCHANGED hostVars
  BY <1>4
<1>5. \/ UNCHANGED hostVars \/ Begins \/ Reaps \/ Relays \/ Relayed
      \/ \E t \in Runs : \/ ClockKills(t) \/ ClockTells(t)
                          \/ Answers(t) \/ Faults(t)
  BY RunMoves
  DEF RtMoves, CallerMoves, ClockMoves, Makes, Asks, Ends, Writes, Exits, Dies,
      NotRouted, Routed, Reads, ReadsNothing, Leaves, Says, Waits,
      ClockFires, ClockLooks, ClockFlags
<1> QED
  BY <1>1, <1>2, <1>3, <1>4, <1>5

LEMMA CallerStep == ASSUME RunTyped, [Next]_vars PROVE CallerTypes'
<1> USE DEF CallerTypes
<1>0. CallerTypes
  BY DEF RunTyped, RtTypeOK
<1> USE <1>0
<1>1. CASE Begins
  BY <1>1, RtAssumption DEF Begins
<1>2. CASE CallerMoves /\ ~Begins
  <2>0. turn \in Runs
    BY <1>2, Placed
  <2>1. CASE Routed(TRUE) \/ Routed(FALSE) \/ ReadsNothing \/ Leaves
             \/ Says("runs") \/ Says("stops") \/ Waits
    BY <2>1 DEF Routed, ReadsNothing, Leaves, Says, Waits, Moves
  <2>2. CASE NotRouted
    BY <2>0, <2>2 DEF NotRouted
  <2>3. CASE Relays
    BY <2>3 DEF Relays, HostGone, Moves
  <2>4. CASE Relayed
    BY <2>4 DEF Relayed, HostGone, Moves
  <2>5. CASE Reads
    <3>1. pipe # <<>> /\ pipe \in Seq(Kinds)
      BY <2>5 DEF Reads, RunTyped, RtTypeOK, ProgramTypes
    <3>2. Head(pipe) \in Kinds
      BY <3>1
    <3>3. Many("tells", <<Head(pipe)>>) \in Nat
      BY <3>2, OneOf, ManyTyped
    <3>4. UNCHANGED <<turn, told>> /\ caller' \in {"reads", "hosts", "leaves"}
      BY <2>5, <3>2 DEF Reads, Moves, Kinds
    <3> QED
      BY <2>5, <3>3, <3>4 DEF Reads
  <2>6. CASE Reaps
    <3>1. Classify \in {"finished", "timed_out", "host_gone", "out_of_memory",
                       "unavailable"}
      BY DEF Classify
    <3> QED
      BY <2>0, <2>6, <3>1 DEF Reaps
  <2> QED
    BY <1>2, <2>1, <2>2, <2>3, <2>4, <2>5, <2>6 DEF CallerMoves
<1>3. CASE UNCHANGED callVars
  BY <1>3
<1>4. UNCHANGED callVars \/ CallerMoves
  BY RunMoves
  DEF RtMoves, ClockMoves, Makes, Asks, Ends, Writes, Exits, Dies,
      ClockFires, ClockLooks, ClockFlags, ClockKills, ClockTells, Answers, Faults
<1> QED
  BY <1>1, <1>2, <1>3, <1>4

LEMMA RunTypedStep == RunTyped /\ [Next]_vars => RunTyped'
<1> SUFFICES ASSUME RunTyped, [Next]_vars PROVE RunTyped'
  OBVIOUS
<1>1. RtTypeOK'
  BY ProgramStep, ClockStep, HostStep, CallerStep DEF RtTypeOK
<1>2. Runs \subseteq Nat \ {0} /\ turn \in Nat
  BY RunNumbers
<1>3. CASE Begins
  <2>1. /\ turn' = turn + 1 /\ turn + 1 \in Runs /\ Kept \in 1..(turn + 1)
        /\ worker' = [worker EXCEPT ![turn + 1] = Kept]
        /\ UNCHANGED <<rt, told, clock, stopped>>
    BY <1>2, <1>3, RunNumbers DEF Begins, Kept
  <2>2. worker \in [Runs -> 0..Turns]
    BY DEF RunTyped, RtTypeOK, HostTypes
  <2>3. \A t \in Runs : t <= turn' => worker'[t] \in 1..t
    BY <1>2, <2>1, <2>2 DEF RunTyped
  <2> QED
    BY <1>1, <1>2, <2>1, <2>3 DEF RunTyped
<1>4. CASE ~Begins
  <2>1. turn' = turn /\ worker' = worker
    BY <1>4, RunMoves
    DEF RtMoves, CallerMoves, ClockMoves, Makes, Asks, Ends, Writes, Exits, Dies,
        Routed, NotRouted, Reads, ReadsNothing, Leaves, Reaps, Relays, Relayed,
        HostGone, Says, Waits, Moves, ClockFires, ClockLooks, ClockFlags, ClockKills,
        ClockTells, Answers, Faults
  <2>2. caller' # "idle" => turn' > 0
    <3>1. CASE CallerMoves
      BY <1>2, <1>4, <2>1, <3>1, Placed
    <3>2. CASE ~CallerMoves
      <4>1. caller' = caller
        BY <3>2, RunMoves
        DEF RtMoves, ClockMoves, Makes, Asks, Ends, Writes, Exits, Dies,
            ClockFires, ClockLooks, ClockFlags, ClockKills, ClockTells, Answers, Faults
      <4> QED
        BY <2>1, <4>1 DEF RunTyped
    <3> QED
      BY <3>1, <3>2
  <2>3. \A t \in Runs : t > turn' => /\ rt'[t] = "off" /\ told'[t] = "none"
                                     /\ clock'[t] = "off" /\ ~stopped'[t]
    <3>0. /\ rt \in [Runs -> {"off", "runs", "asks", "stops", "ends", "gone"}]
          /\ clock \in [Runs -> {"off", "set", "fired", "found", "flagged", "killed",
                                "done"}]
          /\ stopped \in [Runs -> BOOLEAN] /\ DOMAIN told = Runs
      BY DEF RunTyped, RtTypeOK, ProgramTypes, ClockTypes, CallerTypes
    <3>1. CASE RtMoves
      BY <2>1, <3>0, <3>1
      DEF RunTyped, RtMoves, Makes, Asks, Ends, Writes, Exits, Dies, Killed
    <3>2. CASE CallerMoves
      <4>1. /\ \A t \in Runs \ {turn} : /\ rt'[t] = rt[t] /\ told'[t] = told[t]
                                        /\ clock'[t] = clock[t]
            /\ stopped' = stopped
        <5>1. CASE Routed(TRUE) \/ Routed(FALSE) \/ NotRouted \/ Reads \/ ReadsNothing
          BY <3>0, <5>1 DEF Routed, NotRouted, Reads, ReadsNothing, Moves
        <5>2. CASE Leaves
          <6>1. rt' = rt \/ \E x : rt' = [rt EXCEPT ![turn] = x]
            BY <5>2 DEF Leaves, Killed
          <6>2. \E x : clock' = [clock EXCEPT ![turn] = x]
            BY <5>2 DEF Leaves
          <6> QED
            BY <3>0, <5>2, <6>1, <6>2 DEF Leaves, Moves
        <5>3. CASE Reaps
          BY <3>0, <5>3 DEF Reaps
        <5>4. CASE Relays \/ Relayed \/ Waits
          BY <5>4 DEF Relays, Relayed, Waits, HostGone, Moves
        <5>5. CASE Says("runs") \/ Says("stops")
          BY <3>0, <5>5 DEF Says, Moves
        <5> QED
          BY <1>4, <3>2, <5>1, <5>2, <5>3, <5>4, <5>5 DEF CallerMoves
      <4> QED
        BY <1>2, <2>1, <4>1 DEF RunTyped
    <3>3. ASSUME NEW t \in Runs, ClockMoves(t) \/ Answers(t) \/ Faults(t)
          PROVE  \A u \in Runs : u > turn' => /\ rt'[u] = "off" /\ told'[u] = "none"
                                   /\ clock'[u] = "off" /\ ~stopped'[u]
      <4>1. \A u \in Runs \ {t} : /\ rt'[u] = rt[u] /\ clock'[u] = clock[u]
                                  /\ stopped'[u] = stopped[u]
        <5>1. CASE ClockKills(t)
          BY <3>0, <5>1 DEF ClockKills, Killed
        <5>2. CASE ClockFires(t) \/ ClockLooks(t) \/ ClockFlags(t)
          BY <3>0, <5>2 DEF ClockFires, ClockLooks, ClockFlags
        <5>3. CASE ClockTells(t) \/ Answers(t) \/ Faults(t)
          BY <3>0, <5>3 DEF ClockTells, Answers, Faults
        <5> QED
          BY <3>3, <5>1, <5>2, <5>3 DEF ClockMoves
      <4>2. told' = told
        BY <3>3 DEF ClockMoves, ClockFires, ClockLooks, ClockFlags, ClockKills, ClockTells,
                    Answers, Faults
      <4>3. t > turn => /\ rt'[t] = rt[t] /\ clock'[t] = clock[t]
                        /\ stopped'[t] = stopped[t]
        BY <3>3 DEF RunTyped, ClockMoves, ClockFires, ClockLooks, ClockFlags, ClockKills,
                    ClockTells, Answers, Faults
      <4> QED
        BY <2>1, <4>1, <4>2, <4>3 DEF RunTyped
    <3>4. CASE UNCHANGED runVars
      BY <3>4 DEF RunTyped
    <3> QED
      BY <3>1, <3>2, <3>3, <3>4, RunMoves
  <2> QED
    BY <1>1, <2>1, <2>2, <2>3 DEF RunTyped
<1> QED
  BY <1>3, <1>4

-----------------------------------------------------------------------------
(* RtRun: the frames on their way, and where the caller is. *)

Has(k, f) == \E i \in DOMAIN f : f[i] = k

\* a call and the end are the last of the frames there are
Tailed(f) == \A i \in DOMAIN f : f[i] \in {"calls", "ends"} => i = Len(f)

LEMMA EmptyFrames == /\ Tailed(<<>>) /\ \A k : ~Has(k, <<>>) /\ Many(k, <<>>) = 0
<1>1. Tailed(<<>>) /\ \A k : ~Has(k, <<>>)
  BY DEF Tailed, Has
<1>2. \A k : {i \in DOMAIN <<>> : <<>>[i] = k} = {}
  OBVIOUS
<1> QED
  BY <1>1, <1>2, FS_EmptySet DEF Many

LEMMA AppendFrame ==
  ASSUME NEW f \in Seq(Kinds), NEW x \in Kinds
  PROVE  /\ \A k : Has(k, Append(f, x)) <=> Has(k, f) \/ x = k
         /\ ~Has("calls", f) /\ ~Has("ends", f) => Tailed(Append(f, x))
<1>1. /\ DOMAIN f = 1..Len(f) /\ DOMAIN Append(f, x) = 1..(Len(f) + 1)
      /\ \A i \in DOMAIN f : Append(f, x)[i] = f[i]
      /\ Append(f, x)[Len(f) + 1] = x /\ Len(f) \in Nat
      /\ Len(Append(f, x)) = Len(f) + 1
  OBVIOUS
<1>2. \A i \in DOMAIN Append(f, x) : i \in DOMAIN f \/ i = Len(f) + 1
  BY <1>1
<1>3. DOMAIN f \subseteq DOMAIN Append(f, x) /\ Len(f) + 1 \in DOMAIN Append(f, x)
  BY <1>1
<1>4. ASSUME NEW k PROVE Has(k, Append(f, x)) <=> Has(k, f) \/ x = k
  <2>1. ASSUME Has(k, Append(f, x)) PROVE Has(k, f) \/ x = k
    BY <1>1, <1>2, <2>1 DEF Has
  <2>2. ASSUME Has(k, f) PROVE Has(k, Append(f, x))
    BY <1>1, <1>3, <2>2 DEF Has
  <2>3. ASSUME x = k PROVE Has(k, Append(f, x))
    BY <1>1, <1>3, <2>3 DEF Has
  <2> QED
    BY <2>1, <2>2, <2>3
<1>5. ASSUME ~Has("calls", f), ~Has("ends", f) PROVE Tailed(Append(f, x))
  BY <1>1, <1>2, <1>5 DEF Has, Tailed
<1> QED
  BY <1>4, <1>5

LEMMA TailFrame ==
  ASSUME NEW f \in Seq(Kinds), f # <<>>
  PROVE  /\ \A k : Has(k, f) <=> Head(f) = k \/ Has(k, Tail(f))
         /\ Tailed(f) => /\ Tailed(Tail(f))
                         /\ Head(f) \in {"calls", "ends"} => Tail(f) = <<>>
<1>1. /\ DOMAIN f = 1..Len(f) /\ Len(f) \in Nat \ {0} /\ Head(f) = f[1]
      /\ DOMAIN Tail(f) = 1..(Len(f) - 1) /\ Len(Tail(f)) = Len(f) - 1
      /\ \A i \in DOMAIN Tail(f) : Tail(f)[i] = f[i + 1]
  OBVIOUS
<1>2. \A i \in DOMAIN f : i = 1 \/ (i - 1 \in DOMAIN Tail(f) /\ f[i] = Tail(f)[i - 1])
  <2> TAKE i \in DOMAIN f
  <2>1. i \in 1..Len(f)
    BY <1>1
  <2>2. i # 1 => i - 1 \in DOMAIN Tail(f) /\ (i - 1) + 1 = i
    BY <1>1, <2>1
  <2> QED
    BY <1>1, <2>2
<1>3. \A i \in DOMAIN Tail(f) : i + 1 \in DOMAIN f
  BY <1>1
<1>4. ASSUME NEW k PROVE Has(k, f) <=> Head(f) = k \/ Has(k, Tail(f))
  <2>1. ASSUME Has(k, f) PROVE Head(f) = k \/ Has(k, Tail(f))
    BY <1>1, <1>2, <2>1 DEF Has
  <2>2. ASSUME Has(k, Tail(f)) PROVE Has(k, f)
    BY <1>1, <1>3, <2>2 DEF Has
  <2>3. ASSUME Head(f) = k PROVE Has(k, f)
    BY <1>1, <2>3 DEF Has
  <2> QED
    BY <2>1, <2>2, <2>3
<1>5. ASSUME Tailed(f) PROVE Tailed(Tail(f))
  BY <1>1, <1>3, <1>5 DEF Tailed
<1>6. ASSUME Tailed(f), Head(f) \in {"calls", "ends"} PROVE Tail(f) = <<>>
  <2>1. Len(f) = 1
    BY <1>1, <1>6 DEF Tailed
  <2> QED
    BY <1>1, <2>1
<1> QED
  BY <1>4, <1>5, <1>6

\* Counting the frames of a kind, one more at the end or one less at the front.
Found(k, f) == {i \in DOMAIN f : f[i] = k}

LEMMA ManyFound == \A k, f : Many(k, f) = Cardinality(Found(k, f))
  BY DEF Many, Found

LEMMA FoundFinite ==
  ASSUME NEW S, NEW f \in Seq(S), NEW k
  PROVE  IsFiniteSet(Found(k, f)) /\ Cardinality(Found(k, f)) \in Nat
  BY ManyTyped DEF Many, Found

LEMMA ManyOne == \A x, k : Many(k, <<x>>) = IF x = k THEN 1 ELSE 0
<1> TAKE x, k
<1>1. Found(k, <<x>>) = IF x = k THEN {1} ELSE {}
  BY DEF Found
<1> QED
  BY <1>1, ManyFound, FS_EmptySet, FS_Singleton

LEMMA ManyAppend ==
  ASSUME NEW f \in Seq(Kinds), NEW x \in Kinds, NEW k
  PROVE  Many(k, Append(f, x)) = Many(k, f) + Many(k, <<x>>)
<1>1. /\ DOMAIN f = 1..Len(f) /\ DOMAIN Append(f, x) = 1..(Len(f) + 1)
      /\ \A i \in DOMAIN f : Append(f, x)[i] = f[i]
      /\ Append(f, x)[Len(f) + 1] = x /\ Len(f) \in Nat
  OBVIOUS
<1>2. IsFiniteSet(Found(k, f)) /\ Cardinality(Found(k, f)) \in Nat
  BY FoundFinite
<1>3. CASE x = k
  <2>1. Found(k, Append(f, x)) = Found(k, f) \union {Len(f) + 1}
    BY <1>1, <1>3 DEF Found
  <2>2. Len(f) + 1 \notin Found(k, f)
    BY <1>1 DEF Found
  <2>3. Cardinality(Found(k, Append(f, x))) = Cardinality(Found(k, f)) + 1
    BY <1>2, <2>1, <2>2, FS_AddElement
  <2> QED
    BY <1>3, <2>3, ManyFound, ManyOne
<1>4. CASE x # k
  <2>1. Found(k, Append(f, x)) = Found(k, f)
    BY <1>1, <1>4 DEF Found
  <2> QED
    BY <1>2, <1>4, <2>1, ManyFound, ManyOne
<1> QED
  BY <1>3, <1>4

LEMMA ManyTail ==
  ASSUME NEW f \in Seq(Kinds), f # <<>>, NEW k
  PROVE  Many(k, f) = Many(k, <<Head(f)>>) + Many(k, Tail(f))
<1>1. /\ DOMAIN f = 1..Len(f) /\ Len(f) \in Nat \ {0} /\ Head(f) = f[1]
      /\ DOMAIN Tail(f) = 1..(Len(f) - 1)
      /\ \A i \in DOMAIN Tail(f) : Tail(f)[i] = f[i + 1]
  OBVIOUS
<1> DEFINE A == Found(k, f) \ {1}  B == Found(k, Tail(f))  g == [i \in A |-> i - 1]
<1>2. IsFiniteSet(Found(k, f)) /\ Cardinality(Found(k, f)) \in Nat
  BY FoundFinite
<1>3. /\ IsFiniteSet(A)
      /\ Cardinality(A) = Cardinality(Found(k, f)) - (IF 1 \in Found(k, f) THEN 1 ELSE 0)
  BY <1>2, FS_RemoveElement
<1>4. ExistsBijection(A, B)
  <2>1. g \in [A -> B]
    BY <1>1 DEF Found
  <2>2. \A i, j \in A : g[i] = g[j] => i = j
    BY <1>1 DEF Found
  <2>3. \A m \in B : \E i \in A : g[i] = m
    <3> TAKE m \in B
    <3>1. m + 1 \in A /\ g[m + 1] = m
      BY <1>1 DEF Found
    <3> QED
      BY <3>1
  <2> QED
    BY <2>1, <2>2, <2>3
    DEF ExistsBijection, Bijection, Injection, IsInjective, Surjection
<1>5. Cardinality(B) = Cardinality(A)
  BY <1>3, <1>4, FS_Bijection
<1>6. 1 \in Found(k, f) <=> Head(f) = k
  BY <1>1 DEF Found
<1> HIDE DEF A, B, g
<1>7. Cardinality(Found(k, f)) = Cardinality(B) + (IF Head(f) = k THEN 1 ELSE 0)
  BY <1>2, <1>3, <1>5, <1>6
<1>8. Cardinality(B) \in Nat
  <2>1. Tail(f) \in Seq(Kinds)
    OBVIOUS
  <2> QED
    BY <2>1, FoundFinite DEF B
<1>9. Many(k, <<Head(f)>>) = IF Head(f) = k THEN 1 ELSE 0
  BY ManyOne
<1>10. Many(k, f) = Cardinality(Found(k, f)) /\ Many(k, Tail(f)) = Cardinality(B)
  BY ManyFound DEF B
<1> QED
  BY <1>7, <1>8, <1>9, <1>10

Hosted == {"hosts", "relays", "says"}
Left   == {"leaves", "waits"}

\* Frames are kept and counted; only the caller that reads can have some
\* before it, and what it has read says where the program is.
Sane ==
  /\ Tailed(channel) /\ Tailed(pipe)
  /\ Has("calls", pipe) \/ Has("ends", pipe) => channel = <<>>
  /\ Has("calls", pipe) \/ Has("calls", channel) => rt[turn] \in {"asks", "gone"}
  /\ Has("ends", pipe) \/ Has("ends", channel) => rt[turn] \in {"ends", "gone"}
  /\ written = heard + Many("tells", pipe)
Emptied ==
  /\ caller # "reads" => channel = <<>> /\ pipe = <<>>
  /\ turn = 0 => caller = "idle"
  /\ turn > 0 /\ rt[turn] = "gone" => channel = <<>>
Placing ==
  /\ caller = "routes" => rt[turn] = "off" /\ got = "none"
  /\ caller = "reads" => rt[turn] # "off" /\ got = "none"
  /\ caller \in Hosted => rt[turn] \in {"asks", "gone"} /\ got = "none"
  /\ caller \in Left => CASE got = "end" -> rt[turn] \in {"ends", "gone"}
                         [] got = "none" -> rt[turn] = "gone"
                         [] OTHER -> rt[turn] \in {"asks", "gone"}
  /\ caller = "waits" /\ got # "end" => rt[turn] = "gone"

\* A run that is over has been told how it ended, and no other has.
Past ==
  \A t \in Runs :
    IF t < turn \/ (t = turn /\ caller = "idle")
    THEN /\ told[t] # "none" /\ rt[t] \in {"off", "gone"}
         /\ told[t] = "finished" => rt[t] = "gone"
    ELSE told[t] = "none"

Framed == RunTyped /\ Sane /\ Emptied /\ Placing /\ Past

LEMMA FramedInit == Init => Framed
<1> SUFFICES ASSUME Init PROVE Framed
  OBVIOUS
<1>1. RunTyped
  BY RunTypedInit
<1>2. Sane
  BY EmptyFrames DEF Init, RtInit, Sane
<1>3. Emptied /\ Placing
  BY DEF Init, RtInit, Emptied, Placing, Hosted, Left
<1>4. Past
  BY RunNumbers, <1>1 DEF Init, RtInit, Past
<1> QED
  BY <1>1, <1>2, <1>3, <1>4 DEF Framed

\* What the proofs of the steps need of the types.
LEMMA FrameFacts ==
  ASSUME RunTyped
  PROVE  /\ rt \in [Runs -> {"off", "runs", "asks", "stops", "ends", "gone"}]
         /\ channel \in Seq(Kinds) /\ pipe \in Seq(Kinds) /\ <<>> \in Seq(Kinds)
         /\ written \in Nat /\ heard \in Nat /\ Many("tells", pipe) \in Nat
         /\ {"tells", "prints", "calls", "ends"} = Kinds
         /\ caller \in {"idle", "routes", "reads"} \union Hosted \union Left
         /\ got \in {"none", "end", "host_gone"} /\ DOMAIN told = Runs
<1>1. channel \in Seq(Kinds) /\ pipe \in Seq(Kinds) /\ <<>> \in Seq(Kinds)
  BY DEF RunTyped, RtTypeOK, ProgramTypes
<1>2. Many("tells", pipe) \in Nat
  BY <1>1, ManyTyped
<1> QED
  BY <1>1, <1>2
  DEF RunTyped, RtTypeOK, ProgramTypes, CallerTypes, Kinds, Hosted, Left

LEMMA FramedRt == ASSUME Framed, RtMoves PROVE Sane' /\ Emptied' /\ Placing' /\ Past'
<1>0. turn \in Runs /\ turn \in Nat \ {0}
  BY Placed, RunNumbers DEF Framed
<1> USE <1>0, FrameFacts DEF Framed
<1>1. /\ UNCHANGED <<turn, caller, got, told, heard>>
      /\ \A t \in Runs \ {turn} : rt'[t] = rt[t]
  BY DEF RtMoves, Makes, Asks, Ends, Writes, Exits, Dies, Killed
<1>2. rt[turn] \in {"runs", "stops"} => caller = "reads"
  BY DEF Placing, Hosted, Left, Past
<1>3. channel # <<>> => caller = "reads"
  BY DEF Emptied
<1>4. CASE Makes("tells") \/ Makes("prints")
  <2>1. PICK k \in {"tells", "prints"} : Makes(k)
    BY <1>4
  <2>2. /\ rt[turn] = "runs" /\ channel' = Append(channel, k)
        /\ UNCHANGED <<rt, pipe, written>>
    BY <2>1 DEF Makes
  <2>3. /\ ~Has("calls", channel) /\ ~Has("ends", channel)
        /\ ~Has("calls", pipe) /\ ~Has("ends", pipe)
    BY <2>2 DEF Sane
  <2>4. /\ ~Has("calls", channel') /\ ~Has("ends", channel') /\ Tailed(channel')
    BY <2>2, <2>3, AppendFrame
  <2>5. Sane'
    BY <1>1, <2>2, <2>3, <2>4 DEF Sane
  <2>6. Emptied'
    BY <1>1, <1>2, <2>2 DEF Emptied
  <2>7. Placing' /\ Past'
    BY <1>1, <2>2 DEF Placing, Past
  <2> QED
    BY <2>5, <2>6, <2>7
<1>5. CASE Asks
  <2>1. /\ rt[turn] = "runs" /\ channel' = channel \o <<"tells", "calls">>
        /\ rt' = [rt EXCEPT ![turn] = "asks"] /\ UNCHANGED <<pipe, written>>
    BY <1>5 DEF Asks
  <2>2. /\ ~Has("calls", channel) /\ ~Has("ends", channel)
        /\ ~Has("calls", pipe) /\ ~Has("ends", pipe)
    BY <2>1 DEF Sane
  <2> DEFINE c == Append(channel, "tells")
  <2>3. c \in Seq(Kinds) /\ channel' = Append(c, "calls")
    BY <2>1
  <2>4. ~Has("calls", c) /\ ~Has("ends", c)
    BY <2>2, AppendFrame
  <2>5. ~Has("ends", channel') /\ Tailed(channel')
    BY <2>3, <2>4, AppendFrame
  <2>6. rt'[turn] = "asks"
    BY <2>1
  <2>7. Sane'
    BY <1>1, <2>1, <2>2, <2>5, <2>6 DEF Sane
  <2>8. Emptied'
    BY <1>1, <1>2, <2>1, <2>6 DEF Emptied
  <2>9. Placing' /\ Past'
    BY <1>1, <1>2, <2>1, <2>6 DEF Placing, Past, Hosted, Left
  <2> QED
    BY <2>7, <2>8, <2>9
<1>6. CASE Ends
  <2>1. /\ rt[turn] \in {"runs", "stops"} /\ channel' = Append(channel, "ends")
        /\ rt' = [rt EXCEPT ![turn] = "ends"] /\ UNCHANGED <<pipe, written>>
    BY <1>6 DEF Ends
  <2>2. /\ ~Has("calls", channel) /\ ~Has("ends", channel)
        /\ ~Has("calls", pipe) /\ ~Has("ends", pipe)
    BY <2>1 DEF Sane
  <2>3. ~Has("calls", channel') /\ Tailed(channel')
    BY <2>1, <2>2, AppendFrame
  <2>4. rt'[turn] = "ends"
    BY <2>1
  <2>5. Sane'
    BY <1>1, <2>1, <2>2, <2>3, <2>4 DEF Sane
  <2>6. Emptied'
    BY <1>1, <1>2, <2>1, <2>4 DEF Emptied
  <2>7. Placing' /\ Past'
    BY <1>1, <1>2, <2>1, <2>4 DEF Placing, Past, Hosted, Left
  <2> QED
    BY <2>5, <2>6, <2>7
<1>7. CASE Writes
  <2> DEFINE h == Head(channel)
  <2>1. /\ channel # <<>> /\ Alive(turn) /\ pipe' = Append(pipe, h)
        /\ channel' = Tail(channel) /\ rt' = rt
        /\ written' = written + Many("tells", <<h>>)
    BY <1>7 DEF Writes
  <2>2. h \in Kinds /\ caller = "reads" /\ rt[turn] # "gone"
    BY <1>3, <2>1 DEF Alive
  <2>3. ~Has("calls", pipe) /\ ~Has("ends", pipe)
    BY <2>1 DEF Sane
  <2>4. /\ \A k : Has(k, channel) <=> h = k \/ Has(k, channel')
        /\ Tailed(channel')
        /\ h \in {"calls", "ends"} => channel' = <<>>
    BY <2>1, TailFrame DEF Sane
  <2>5. Tailed(pipe') /\ \A k : Has(k, pipe') <=> Has(k, pipe) \/ h = k
    BY <2>1, <2>2, <2>3, AppendFrame
  <2>6. Many("tells", pipe') = Many("tells", pipe) + Many("tells", <<h>>)
    BY <2>1, <2>2, ManyAppend
  <2>7. Many("tells", <<h>>) \in Nat
    BY <2>2, OneOf, ManyTyped
  <2> HIDE DEF h
  <2>8. written' = heard' + Many("tells", pipe')
    BY <1>1, <2>1, <2>6, <2>7 DEF Sane
  <2>9. Sane'
    BY <1>1, <2>1, <2>3, <2>4, <2>5, <2>8 DEF Sane
  <2>10. Emptied' /\ Placing' /\ Past'
    BY <1>1, <2>1, <2>2 DEF Emptied, Placing, Past
  <2> QED
    BY <2>9, <2>10
<1>8. CASE Exits \/ Dies
  <2>1. /\ rt[turn] \notin {"off", "gone"} /\ rt' = [rt EXCEPT ![turn] = "gone"]
        /\ channel' = <<>> /\ UNCHANGED <<pipe, written>>
        /\ rt[turn] = "ends" \/ ~Has("ends", pipe)
    BY <1>8 DEF Exits, Dies, Killed, Alive, Sane
  <2>2. rt'[turn] = "gone"
    BY <2>1
  <2>3. Sane'
    BY <1>1, <2>1, <2>2, EmptyFrames DEF Sane
  <2>4. Emptied'
    BY <1>1, <2>1 DEF Emptied
  <2>5. Placing'
    BY <1>1, <2>1, <2>2 DEF Placing, Hosted, Left
  <2>6. Past'
    BY <1>1, <2>1, <2>2 DEF Past
  <2> QED
    BY <2>3, <2>4, <2>5, <2>6
<1> QED
  BY <1>4, <1>5, <1>6, <1>7, <1>8 DEF RtMoves

\* A clock, a worker, and a host answer change the place of no run but by
\* killing sabline-rt.
LEMMA FramedClock ==
  ASSUME Framed, NEW t \in Runs, ClockMoves(t) \/ Answers(t) \/ Faults(t)
  PROVE  Sane' /\ Emptied' /\ Placing' /\ Past'
<1> USE FrameFacts DEF Framed
<1>1. UNCHANGED <<turn, caller, got, told, heard, pipe, written>>
  BY DEF ClockMoves, ClockFires, ClockLooks, ClockFlags, ClockKills, ClockTells, Answers, Faults
<1>2. \/ UNCHANGED <<rt, channel>>
      \/ /\ rt[t] \in {"runs", "asks", "stops", "ends"}
         /\ rt' = [rt EXCEPT ![t] = "gone"] /\ channel' = <<>>
  BY DEF ClockMoves, ClockFires, ClockLooks, ClockFlags, ClockKills, ClockTells, Answers,
         Faults, Killed, Alive
<1>3. CASE UNCHANGED <<rt, channel>>
  BY <1>1, <1>3 DEF Sane, Emptied, Placing, Past
<1>4. CASE /\ rt[t] \in {"runs", "asks", "stops", "ends"}
           /\ rt' = [rt EXCEPT ![t] = "gone"] /\ channel' = <<>>
  <2>1. t = turn /\ turn \in Nat \ {0} /\ caller # "idle"
    BY <1>4, RunNumbers DEF Past, RunTyped
  <2>2. rt'[turn] = "gone"
    BY <1>4, <2>1
  <2>3. Sane'
    BY <1>1, <1>4, <2>2, EmptyFrames DEF Sane
  <2>4. Emptied'
    BY <1>1, <1>4, <2>1 DEF Emptied
  <2>5. Placing'
    BY <1>1, <1>4, <2>1, <2>2 DEF Placing, Hosted, Left
  <2>6. Past'
    BY <1>1, <1>4, <2>1, <2>2 DEF Past
  <2> QED
    BY <2>3, <2>4, <2>5, <2>6
<1> QED
  BY <1>2, <1>3, <1>4

LEMMA FramedCaller ==
  ASSUME Framed, CallerMoves PROVE Sane' /\ Emptied' /\ Placing' /\ Past'
<1> USE FrameFacts DEF Framed
<1>1. CASE Begins
  <2>1. /\ caller = "idle" /\ turn < Turns /\ turn' = turn + 1 /\ caller' = "routes"
        /\ got' = "none" /\ heard' = 0 /\ written' = 0
        /\ channel' = <<>> /\ pipe' = <<>> /\ UNCHANGED <<rt, told>>
    BY <1>1 DEF Begins
  <2>2. turn \in Nat /\ turn + 1 \in Runs /\ Runs \subseteq Nat \ {0}
    BY <2>1, RunNumbers
  <2>3. rt'[turn'] = "off" /\ told'[turn'] = "none"
    BY <2>1, <2>2 DEF RunTyped
  <2>4. Sane'
    BY <2>1, EmptyFrames DEF Sane
  <2>5. Emptied' /\ Placing'
    BY <2>1, <2>2, <2>3 DEF Emptied, Placing, Hosted, Left
  <2>6. Past'
    BY <2>1, <2>2, <2>3 DEF Past, RunTyped
  <2> QED
    BY <2>4, <2>5, <2>6
<1>2. CASE ~Begins
  <2>0. turn \in Runs /\ turn \in Nat \ {0} /\ turn' = turn
    BY <1>2, Placed, RunNumbers
    DEF CallerMoves, Routed, NotRouted, Reads, ReadsNothing, Leaves, Reaps, Relays,
        Relayed, HostGone, Says, Waits, Moves
  <2> USE <2>0
  <2>1. CASE Routed(TRUE) \/ Routed(FALSE)
    <3>1. /\ caller = "routes" /\ caller' = "reads" /\ rt' = [rt EXCEPT ![turn] = "runs"]
          /\ UNCHANGED <<got, told, heard, channel, pipe, written>>
      BY <2>1 DEF Routed
    <3>2. rt'[turn] = "runs" /\ channel = <<>> /\ pipe = <<>> /\ got = "none"
      BY <3>1 DEF Emptied, Placing
    <3>3. Sane'
      BY <3>1, <3>2, EmptyFrames DEF Sane
    <3>4. Emptied' /\ Placing'
      BY <3>1, <3>2 DEF Emptied, Placing, Hosted, Left
    <3>5. Past'
      BY <3>1, <3>2 DEF Past
    <3> QED
      BY <3>3, <3>4, <3>5
  <2>2. CASE NotRouted
    <3>1. /\ caller = "routes" /\ caller' = "idle"
          /\ told' = [told EXCEPT ![turn] = "host_gone"]
          /\ UNCHANGED <<rt, got, heard, channel, pipe, written>>
      BY <2>2 DEF NotRouted
    <3>2. Sane' /\ Emptied' /\ Placing'
      BY <3>1 DEF Sane, Emptied, Placing, Hosted, Left
    <3>3. Past'
      BY <3>1 DEF Past, Placing
    <3> QED
      BY <3>2, <3>3
  <2>3. CASE Reads
    <3> DEFINE h == Head(pipe)
    <3>1. /\ caller = "reads" /\ pipe # <<>> /\ pipe' = Tail(pipe)
          /\ heard' = heard + Many("tells", <<h>>)
          /\ got' = IF h = "ends" THEN "end" ELSE got
          /\ UNCHANGED <<rt, channel, written, told>>
      BY <2>3 DEF Reads, Moves
    <3>2. h \in Kinds
      BY <3>1
    <3>3. /\ h \in {"tells", "prints"} => caller' = "reads"
          /\ h = "calls" => caller' = "hosts"
          /\ h = "ends" => caller' = "leaves"
      BY <2>3, <3>2 DEF Reads, Moves
    <3>4. /\ \A k : Has(k, pipe) <=> h = k \/ Has(k, pipe')
          /\ Tailed(pipe')
          /\ h \in {"calls", "ends"} => pipe' = <<>>
      BY <3>1, TailFrame DEF Sane
    <3>5. Many("tells", pipe) = Many("tells", <<h>>) + Many("tells", pipe')
      BY <3>1, ManyTail
    <3>6. Many("tells", <<h>>) \in Nat /\ Many("tells", pipe') \in Nat
      <4>1. pipe' \in Seq(Kinds) /\ <<h>> \in Seq(Kinds)
        BY <3>1, <3>2
      <4> QED
        BY <4>1, ManyTyped
    <3> HIDE DEF h
    <3>7. written' = heard' + Many("tells", pipe')
      BY <3>1, <3>5, <3>6 DEF Sane
    <3>8. Sane'
      BY <3>1, <3>4, <3>7 DEF Sane
    <3>9. Emptied'
      BY <3>1, <3>2, <3>3, <3>4 DEF Emptied, Sane
    <3>10. Placing'
      BY <3>1, <3>2, <3>3, <3>4 DEF Placing, Sane, Hosted, Left
    <3>11. Past'
      BY <3>1, <3>2, <3>3 DEF Past
    <3> QED
      BY <3>8, <3>9, <3>10, <3>11
  <2>4. CASE ReadsNothing
    <3>1. /\ caller = "reads" /\ pipe = <<>> /\ rt[turn] = "gone" /\ caller' = "leaves"
          /\ UNCHANGED <<rt, channel, pipe, got, told, heard, written>>
      BY <2>4 DEF ReadsNothing, Moves
    <3> QED
      BY <3>1 DEF Sane, Emptied, Placing, Past, Hosted, Left
  <2>5. CASE Leaves
    <3>1. /\ caller = "leaves" /\ caller' = "waits"
          /\ UNCHANGED <<got, told, heard, pipe, written>>
          /\ got = "end" => UNCHANGED <<rt, channel>>
          /\ got # "end" => Killed(turn) /\ channel' = <<>>
      BY <2>5 DEF Leaves, Moves
    <3>2. \A t \in Runs \ {turn} : rt'[t] = rt[t]
      BY <3>1 DEF Killed
    <3>3. /\ got # "end" => rt'[turn] = "gone"
          /\ got = "end" => rt'[turn] \in {"ends", "gone"}
          /\ channel' = <<>> /\ pipe' = <<>>
      BY <3>1 DEF Killed, Alive, Placing, Left, Emptied
    <3>4. Sane'
      BY <3>1, <3>3, EmptyFrames DEF Sane
    <3>5. Emptied' /\ Placing'
      BY <3>1, <3>3 DEF Emptied, Placing, Hosted, Left
    <3>6. Past'
      BY <3>1, <3>2 DEF Past
    <3> QED
      BY <3>4, <3>5, <3>6
  <2>6. CASE Reaps
    <3>1. /\ caller = "waits" /\ rt[turn] = "gone" /\ caller' = "idle"
          /\ told' = [told EXCEPT ![turn] = Classify]
          /\ UNCHANGED <<got, heard, rt, channel, pipe, written>>
      BY <2>6 DEF Reaps
    <3>2. Classify # "none"
      BY DEF Classify
    <3>3. Sane' /\ Emptied' /\ Placing'
      BY <3>1 DEF Sane, Emptied, Placing, Hosted, Left
    <3>4. Past'
      BY <3>1, <3>2 DEF Past
    <3> QED
      BY <3>3, <3>4
  <2>7. CASE Relays \/ Relayed \/ Waits
    <3>1. /\ caller \in Hosted /\ UNCHANGED <<told, heard, rt, channel, pipe, written>>
          /\ \/ caller' \in Hosted /\ got' = got
             \/ caller' = "leaves" /\ got' = "host_gone"
      BY <2>7 DEF Relays, Relayed, Waits, HostGone, Moves, Hosted
    <3> QED
      BY <3>1 DEF Sane, Emptied, Placing, Past, Hosted, Left
  <2>8. CASE Says("runs") \/ Says("stops")
    <3>1. /\ caller = "says" /\ UNCHANGED <<got, told, heard, channel, pipe, written>>
          /\ \/ /\ rt[turn] = "asks" /\ caller' = "reads"
                /\ \E next \in {"runs", "stops"} : rt' = [rt EXCEPT ![turn] = next]
             \/ rt[turn] # "asks" /\ rt' = rt /\ caller' = "leaves"
      BY <2>8 DEF Says, Moves
    <3>2. channel = <<>> /\ pipe = <<>> /\ got = "none"
      BY <3>1 DEF Emptied, Placing, Hosted
    <3>3. Sane'
      BY <3>1, <3>2, EmptyFrames DEF Sane
    <3>4. Emptied' /\ Placing'
      BY <3>1, <3>2 DEF Emptied, Placing, Hosted, Left
    <3>5. Past'
      BY <3>1 DEF Past
    <3> QED
      BY <3>3, <3>4, <3>5
  <2> QED
    BY <1>2, <2>1, <2>2, <2>3, <2>4, <2>5, <2>6, <2>7, <2>8 DEF CallerMoves
<1> QED
  BY <1>1, <1>2

LEMMA FramedStep == Framed /\ [Next]_vars => Framed'
<1> SUFFICES ASSUME Framed, [Next]_vars PROVE Framed'
  OBVIOUS
<1>1. RunTyped'
  BY RunTypedStep DEF Framed
<1>2. CASE UNCHANGED runVars
  BY <1>1, <1>2 DEF Framed, Sane, Emptied, Placing, Past
<1> QED
  BY <1>1, <1>2, RunMoves, FramedRt, FramedClock, FramedCaller DEF Framed

-----------------------------------------------------------------------------
(* RtRun: what stops a run, and what its worker died of. *)

\* A clock that stopped its run is past looking, and one that killed it had
\* stopped it; a worker another run had is one whose run finished; a worker
\* that is gone stays gone, and is gone for a cause the run before the caller
\* gives.
Caused ==
  /\ \A t \in Runs : /\ stopped[t] => clock[t] \in {"flagged", "killed", "done"}
                     /\ clock[t] \in {"flagged", "killed"} => stopped[t]
  /\ \A t \in cut : stopped[t]
  /\ caller = "routes" => clock[turn] = "off" /\ ~stopped[turn]
  /\ \A t \in Runs : t < turn /\ worker[t] = worker[turn] => told[t] = "finished"
  /\ \A t \in Runs : told[t] \notin {"none", "finished"} => host[worker[t]] = "gone"
  /\ got = "host_gone" /\ caller \in Left => host[worker[turn]] = "gone"
  /\ caller # "idle" /\ host[worker[turn]] = "gone" =>
       worker[turn] \in fault \union late \/ stopped[turn]
  /\ StoppedForCause

LEMMA CausedInit == Init => Caused
<1> SUFFICES ASSUME Init PROVE Caused
  OBVIOUS
<1>1. Runs \subseteq Nat \ {0}
  BY RunNumbers, RunTypedInit
<1> QED
  BY <1>1 DEF Init, RtInit, Caused, StoppedForCause, Left

\* What is known of a run that is over, and of one that is not yet.
CauseTyped ==
  /\ Runs \subseteq Nat \ {0} /\ turn \in Nat
  /\ turn > 0 => turn \in Runs /\ worker[turn] \in Runs
  /\ clock \in [Runs -> {"off", "set", "fired", "found", "flagged", "killed", "done"}]
  /\ stopped \in [Runs -> BOOLEAN]
  /\ host \in [Runs -> {"unborn", "idle", "asked", "answered", "gone"}]
  /\ worker \in [Runs -> 0..Turns] /\ DOMAIN told = Runs
  /\ \A t \in Runs : t <= turn => worker[t] \in Runs /\ worker[t] <= t
  /\ \A t \in Runs : t > turn => /\ rt[t] = "off" /\ told[t] = "none"
                                 /\ clock[t] = "off" /\ ~stopped[t]
  /\ \A t \in Runs : t < turn \/ (t = turn /\ caller = "idle")
       => told[t] # "none" /\ rt[t] \in {"off", "gone"}
  /\ \A t \in Runs : told[t] # "none"
       => /\ t < turn \/ (t = turn /\ caller = "idle")
          /\ rt[t] \in {"off", "gone"}

LEMMA CauseFacts == ASSUME Framed PROVE CauseTyped
<1>1. RunTyped
  BY DEF Framed
<1>2. /\ Runs \subseteq Nat \ {0} /\ turn \in Nat
      /\ turn > 0 => turn \in Runs /\ worker[turn] \in Runs
      /\ \A t \in Runs : \A w \in 1..t : w \in Runs
  BY <1>1, RunNumbers
<1>3. \A t \in Runs : t <= turn => worker[t] \in Runs /\ worker[t] <= t
  BY <1>1, <1>2 DEF RunTyped
<1> QED
  BY <1>1, <1>2, <1>3
  DEF CauseTyped, Framed, Past, RunTyped, RtTypeOK, ClockTypes, HostTypes, CallerTypes

LEMMA CausedRt == ASSUME Framed, Caused, RtMoves PROVE Caused'
<1>1. UNCHANGED <<clockVars, hostVars, callVars>>
  BY DEF RtMoves, Makes, Asks, Ends, Writes, Exits, Dies
<1> QED
  BY <1>1 DEF Caused, StoppedForCause

LEMMA CausedClock ==
  ASSUME Framed, Caused, NEW t \in Runs, ClockMoves(t) \/ Answers(t) \/ Faults(t)
  PROVE  Caused'
<1>0. CauseTyped
  BY CauseFacts
<1>b. \A u \in Runs : told[u] # "none" => worker[u] \in Runs
  BY <1>0 DEF CauseTyped
<1>c. caller # "idle" => worker[turn] \in Runs
  BY <1>0 DEF CauseTyped, Framed, RunTyped
<1> USE <1>0 DEF CauseTyped, Caused, StoppedForCause
<1>1. CASE ClockFires(t)
  BY <1>1 DEF ClockFires
<1>2. CASE ClockLooks(t)
  <2>1. /\ clock[t] = "fired" /\ UNCHANGED <<stopped, hostVars, callVars>>
        /\ \E p \in {"found", "done"} : clock' = [clock EXCEPT ![t] = p]
    BY <1>2 DEF ClockLooks
  <2>2. ~stopped[t]
    BY <2>1
  <2> QED
    BY <2>1, <2>2
<1>3. CASE ClockFlags(t)
  <2>1. /\ clock[t] = "found" /\ clock' = [clock EXCEPT ![t] = "flagged"]
        /\ stopped' = [stopped EXCEPT ![t] = TRUE]
        /\ UNCHANGED <<hostVars, callVars>>
    BY <1>3 DEF ClockFlags
  <2>2. t <= turn /\ (caller = "routes" => t # turn) /\ t \notin cut
    BY <2>1
  <2> QED
    BY <2>1, <2>2
<1>6. CASE ClockKills(t)
  <2>1. /\ clock[t] = "flagged" /\ clock' = [clock EXCEPT ![t] = "killed"]
        /\ cut' = (IF Alive(t) THEN cut \union {t} ELSE cut)
        /\ UNCHANGED <<stopped, worker, host, fault, late, callVars>>
    BY <1>6 DEF ClockKills
  <2>2. Alive(t) => told[t] = "none"
    BY DEF Alive
  <2>3. stopped[t]
    BY <2>1
  <2> QED
    BY <2>1, <2>2, <2>3
<1>4. CASE ClockTells(t)
  <2>1. /\ clock[t] = "killed" /\ clock' = [clock EXCEPT ![t] = "done"]
        /\ host' = [host EXCEPT ![worker[t]] = "gone"] /\ late \subseteq late'
        /\ told[t] = "finished" => worker[t] \in late'
        /\ UNCHANGED <<stopped, worker, fault, cut, turn, caller, got, told>>
    BY <1>4 DEF ClockTells
  <2>2. t <= turn /\ stopped[t]
    BY <2>1
  <2>3. \A w \in Runs : host'[w] = "gone" <=> host[w] = "gone" \/ w = worker[t]
    BY <2>1, <2>2
  <2>5. caller # "idle" /\ worker[turn] = worker[t]
          => stopped[turn] \/ worker[turn] \in late'
    BY <2>1, <2>2
  <2> QED
    BY <2>1, <2>3, <1>b, <2>5, <1>c DEF Left
<1>5. CASE Answers(t) \/ Faults(t)
  <2>1. /\ host[t] = "asked" /\ UNCHANGED <<worker, late, cut, clockVars, callVars>>
        /\ \/ host' = [host EXCEPT ![t] = "answered"] /\ fault' = fault
           \/ host' = [host EXCEPT ![t] = "gone"] /\ fault' = fault \union {t}
    BY <1>5 DEF Answers, Faults
  <2>2. DOMAIN host = Runs
    BY <1>0 DEF CauseTyped
  <2>3. /\ \A w \in Runs : host'[w] = "gone" => host[w] = "gone" \/ w \in fault'
        /\ \A w \in Runs : host[w] = "gone" => host'[w] = "gone"
        /\ fault \subseteq fault'
    BY ONLY <2>1, <2>2, t \in Runs
  <2>4. \A u \in Runs : told[u] \notin {"none", "finished"} => host'[worker[u]] = "gone"
    BY <2>3, <1>b DEF Caused
  <2>5. /\ got = "host_gone" /\ caller \in Left => host'[worker[turn]] = "gone"
    BY <2>3, <1>c DEF Left
  <2>6. caller # "idle" /\ host'[worker[turn]] = "gone" =>
          worker[turn] \in fault' \union late \/ stopped[turn]
    BY <2>3, <1>c
  <2>7. StoppedForCause'
    BY <2>1, <2>3
  <2> QED
    BY <2>1, <2>4, <2>5, <2>6, <2>7
<1> QED
  BY <1>1, <1>2, <1>3, <1>4, <1>5, <1>6 DEF ClockMoves

LEMMA CausedCaller == ASSUME Framed, Caused, CallerMoves PROVE Caused'
<1>0. CauseTyped
  BY CauseFacts
<1> USE <1>0 DEF CauseTyped, Caused, StoppedForCause
<1>1. CASE Begins
  <2>1. /\ caller = "idle" /\ turn' = turn + 1 /\ caller' = "routes" /\ got' = "none"
        /\ worker' = [worker EXCEPT ![turn + 1] = Kept]
        /\ host' = [host EXCEPT ![Kept] = "idle"] /\ turn + 1 \in Runs
        /\ UNCHANGED <<clock, stopped, fault, late, cut, told>>
    BY <1>1, RunNumbers DEF Begins, Framed
  <2>2. /\ Kept \in Runs
        /\ \/ Kept = turn + 1
           \/ turn > 0 /\ Kept = worker[turn] /\ host[Kept] # "gone"
    BY <2>1 DEF Kept
  <2>3. worker'[turn'] = Kept /\ host'[Kept] = "idle"
    BY <2>1, <2>2
  <2>4. \A t \in Runs : t <= turn => worker'[t] = worker[t]
    BY <2>1
  <2>5. \A t \in Runs : t < turn' /\ worker'[t] = Kept => told[t] = "finished"
    <3> SUFFICES ASSUME NEW t \in Runs, t <= turn, worker[t] = Kept
                 PROVE  told[t] = "finished"
      BY <2>1, <2>4
    <3>1. told[t] # "none" /\ host[Kept] # "gone"
      BY <2>1, <2>2
    <3> QED
      BY <3>1
  <2>6. ASSUME NEW t \in Runs, told[t] \notin {"none", "finished"}
        PROVE  host'[worker'[t]] = "gone"
    <3>1. t <= turn /\ host[worker[t]] = "gone" /\ worker[t] \in Runs /\ worker[t] <= turn
      BY <2>6
    <3>2. worker[t] # Kept
      BY <2>2, <3>1
    <3> QED
      BY <2>1, <2>4, <3>1, <3>2
  <2>7. clock'[turn'] = "off" /\ ~stopped'[turn']
    BY <2>1
  <2>8. StoppedForCause'
    BY <2>1, <2>4
  <2> QED
    BY <2>1, <2>3, <2>5, <2>6, <2>7, <2>8 DEF Left
<1>2. CASE ~Begins
  <2>0. turn \in Runs /\ worker[turn] \in Runs /\ turn' = turn /\ worker' = worker
    BY <1>2, Placed, RunNumbers
    DEF Framed, CallerMoves, Routed, NotRouted, Reads, ReadsNothing, Leaves, Reaps,
        Relays, Relayed, HostGone, Says, Waits, Moves
  <2> USE <2>0
  <2>1. CASE Routed(TRUE) \/ Routed(FALSE)
    <3>1. /\ caller = "routes" /\ caller' = "reads" /\ host[worker[turn]] # "gone"
          /\ \/ clock' = [clock EXCEPT ![turn] = "set"]
             \/ clock' = [clock EXCEPT ![turn] = "off"]
          /\ UNCHANGED <<stopped, got, told, hostVars>>
      BY <2>1 DEF Routed
    <3> QED
      BY <3>1 DEF Left
  <2>2. CASE NotRouted
    <3>1. /\ caller = "routes" /\ host[worker[turn]] = "gone" /\ caller' = "idle"
          /\ told' = [told EXCEPT ![turn] = "host_gone"]
          /\ UNCHANGED <<got, clockVars, hostVars>>
      BY <2>2 DEF NotRouted
    <3>2. worker[turn] \in fault \union late /\ ~stopped[turn]
      BY <3>1
    <3> QED
      BY <3>1, <3>2 DEF Left
  <2>3. CASE Reads \/ ReadsNothing \/ Waits \/ Says("runs") \/ Says("stops")
    <3>1. /\ caller \notin Left \union {"idle", "routes"} /\ caller' # "routes"
          /\ caller' # "idle"
          /\ got' \in {got, "end"} /\ UNCHANGED <<told, clockVars, hostVars>>
      BY <2>3, FrameFacts
      DEF Framed, Reads, ReadsNothing, Waits, Says, Moves, Left
    <3>2. got' # "host_gone"
      BY <2>3, <3>1
      DEF Framed, Placing, Hosted, Reads, ReadsNothing, Waits, Says, Left
    <3> QED
      BY <3>1, <3>2
  <2>4. CASE Leaves
    <3>1. /\ caller = "leaves" /\ caller' = "waits"
          /\ clock' = [clock EXCEPT ![turn] = IF clock[turn] = "set" THEN "off"
                                              ELSE clock[turn]]
          /\ UNCHANGED <<got, told, stopped, hostVars>>
      BY <2>4 DEF Leaves, Moves
    <3> QED
      BY <3>1 DEF Left
  <2>5. CASE Reaps
    <3>1. /\ caller = "waits" /\ caller' = "idle"
          /\ told' = [told EXCEPT ![turn] = Classify]
          /\ host' = host \/ host' = [host EXCEPT ![worker[turn]] = "gone"]
          /\ got # "end" => host'[worker[turn]] = "gone"
          /\ UNCHANGED <<got, clockVars, worker, fault, late, cut>>
      BY <2>5 DEF Reaps
    <3>2. /\ Classify = "finished" <=> got = "end"
          /\ stopped[turn] => Classify \in {"finished", "timed_out"}
          /\ Classify = "host_gone" => got = "host_gone" /\ ~stopped[turn]
          /\ Classify = "timed_out" => stopped[turn]
      <4>1. got \in {"none", "end", "host_gone"}
        BY FrameFacts DEF Framed
      <4> QED
        BY <4>1 DEF Classify
    <3>3. Classify = "host_gone" => worker[turn] \in fault \union late
      BY <3>1, <3>2 DEF Left
    <3>4. \A w \in Runs : host[w] = "gone" => host'[w] = "gone"
      BY <3>1
    <3>5. StoppedForCause'
      <4>1. DOMAIN told = Runs /\ \A u \in Runs \ {turn} : told'[u] = told[u]
        BY <3>1
      <4>2. told'[turn] = Classify
        BY <3>1, <4>1
      <4> QED
        BY <3>1, <3>2, <3>3, <4>1, <4>2
    <3> QED
      BY <3>1, <3>2, <3>3, <3>4, <3>5 DEF Left
  <2>6. CASE Relays \/ Relayed
    <3>1. /\ caller \in Hosted /\ caller' \notin {"idle", "routes"}
          /\ UNCHANGED <<told, clockVars, worker, fault, late, cut>>
          /\ \/ /\ host[worker[turn]] # "gone" /\ got' = got
                /\ \E x \in {"asked", "idle"} :
                     host' = [host EXCEPT ![worker[turn]] = x]
             \/ host[worker[turn]] = "gone" /\ host' = host
      BY <2>6 DEF Relays, Relayed, HostGone, Moves, Hosted
    <3>2. got = "none"
      BY <3>1 DEF Framed, Placing
    <3>3. \A w \in Runs : host[w] = "gone" <=> host'[w] = "gone"
      BY <3>1
    <3> QED
      BY <3>1, <3>2, <3>3 DEF Hosted
  <2> QED
    BY <1>2, <2>1, <2>2, <2>3, <2>4, <2>5, <2>6 DEF CallerMoves
<1> QED
  BY <1>1, <1>2

LEMMA CausedStep == Framed /\ Caused /\ [Next]_vars => Caused'
<1> SUFFICES ASSUME Framed, Caused, [Next]_vars PROVE Caused'
  OBVIOUS
<1>1. CASE UNCHANGED runVars
  BY <1>1 DEF Caused, StoppedForCause
<1> QED
  BY <1>1, RunMoves, CausedRt, CausedClock, CausedCaller

\* Whatever the deadline, the host and the end of a run do to each other over
\* any number of runs on one worker, a run its clock killed is told it timed
\* out, unless its end was read; only a run its clock stopped is told so; and
\* none is told of its host what its own clock did.
THEOREM ToldItsCause == Spec => []StoppedForCause
<1>1. Caused => StoppedForCause
  BY DEF Caused
<1> QED
  BY <1>1, FramedInit, FramedStep, CausedInit, CausedStep, PTL DEF Spec

-----------------------------------------------------------------------------
(* Tools: the answers a run is given. *)

\* after a refusal the program is stopped, and asks nothing more
Silent ==
  /\ turn = 1
  /\ \/ caller = "says"
     \/ /\ caller \in {"reads", "leaves", "waits", "idle"}
        /\ rt[turn] \in {"stops", "ends", "gone"}
        /\ ~Has("calls", pipe) /\ ~Has("calls", channel)

\* Every call but the last was answered, and the last is unless it is waited
\* on or came to nothing, after which there is none.
Counted ==
  /\ calls \in Nat /\ taken \in Seq(Lines)
  /\ \A i \in DOMAIN taken : taken[i].id = i
  /\ open # None => Len(taken) = calls - 1 /\ came = "none"
  /\ open = None /\ came # "refused" => Len(taken) = calls
  /\ came = "refused" => Len(taken) \in {calls - 1, calls}
Quiet ==
  /\ way = "command" => turn <= 1
  /\ way = "command" /\ came = "refused" => Silent

Answered == Counted /\ Quiet

LEMMA AnsweredInit == Init => Answered
<1> SUFFICES ASSUME Init PROVE Answered
  OBVIOUS
<1>1. <<>> \in Seq(Lines) /\ Len(<<>>) = 0
  OBVIOUS
<1> QED
  BY <1>1 DEF Init, RtInit, ToolsInit, Answered, Counted, Quiet

\* What one step does to the session; a refused run makes no call.
LEMMA SessionMoves ==
  ASSUME Quiet, [Next]_vars
  PROVE  \/ UNCHANGED toolVars
         \/ \E whole \in BOOLEAN : StreamWrite(whole)
         \/ came # "refused" /\ (Refuse \/ \E t \in Tools, f \in Forms : Send(t, f))
         \/ Reply \/ NoReply \/ Exit
<1>1. CASE UNCHANGED vars
  BY <1>1 DEF vars, sessionVars
<1>2. CASE HostActs
  BY <1>2 DEF HostActs, HostWrites, HostLeaves
<1>3. CASE RtActs \/ CallerActs \/ PoolActs \/ WorkerActs \/ CommandSays
  BY <1>3 DEF RtActs, CallerActs, PoolActs, WorkerActs, CommandSays, sessionVars
<1>4. CASE PackageActs
  BY <1>4 DEF PackageActs, PackageRuns
<1>5. CASE ReadsFrame
  BY <1>5 DEF ReadsFrame, sessionVars
<1>6. CASE CommandAsks
  <2>1. way = "command" /\ caller = "hosts"
    BY <1>6 DEF CommandAsks
  <2>2. came # "refused"
    BY <2>1 DEF Quiet, Silent
  <2> QED
    BY <1>6, <2>2 DEF CommandAsks
<1>7. CASE CommandAnswered \/ Over
  BY <1>7 DEF CommandAnswered, Over
<1> QED
  BY <1>1, <1>2, <1>3, <1>4, <1>5, <1>6, <1>7 DEF Next, CallsActs

LEMMA CountedStep == ASSUME Answered, [Next]_vars PROVE Counted'
<1> USE DEF Answered, Counted
<1>1. CASE UNCHANGED toolVars
  BY <1>1 DEF toolVars
<1>2. CASE Exit \/ \E whole \in BOOLEAN : StreamWrite(whole)
  BY <1>2 DEF Exit, StreamWrite
<1>3. CASE came # "refused" /\ Refuse
  BY <1>3 DEF Refuse
<1>4. CASE came # "refused" /\ \E t \in Tools, f \in Forms : Send(t, f)
  <2>1. /\ open = None /\ open' # None /\ came' = "none" /\ calls' = calls + 1
        /\ taken' = taken
    BY <1>4 DEF Send, Call, None
  <2> QED
    BY <1>4, <2>1
<1>5. CASE Reply
  <2>1. /\ open # None /\ open' = None /\ calls' = calls
        /\ \/ /\ Matches(Head(queue)) /\ taken' = Append(taken, Head(queue))
           \/ came' = "refused" /\ taken' = taken
    BY <1>5 DEF Reply
  <2>2. CASE taken' = taken /\ came' = "refused"
    BY <2>1, <2>2
  <2>3. CASE Matches(Head(queue)) /\ taken' = Append(taken, Head(queue))
    <3>1. Head(queue) \in Lines /\ Head(queue).id = calls
      BY <2>3 DEF Matches
    <3>2. /\ taken' \in Seq(Lines) /\ Len(taken') = Len(taken) + 1
          /\ DOMAIN taken' = 1..(Len(taken) + 1)
          /\ \A i \in DOMAIN taken : taken'[i] = taken[i]
          /\ taken'[Len(taken) + 1] = Head(queue)
          /\ DOMAIN taken = 1..Len(taken) /\ Len(taken) \in Nat
      BY <2>3, <3>1
    <3>3. Len(taken) + 1 = calls
      BY <2>1
    <3>4. ASSUME NEW i \in DOMAIN taken' PROVE taken'[i].id = i
      <4>0. i \in 1..(Len(taken) + 1)
        BY ONLY <3>2, <3>4
      <4>1. i \in DOMAIN taken \/ i = Len(taken) + 1
        BY ONLY <3>2, <4>0
      <4> QED
        BY <3>1, <3>2, <3>3, <4>1
    <3> QED
      BY <2>1, <3>2, <3>3, <3>4
  <2> QED
    BY <2>1, <2>2, <2>3
<1>6. CASE NoReply
  BY <1>6 DEF NoReply
<1> QED
  BY <1>1, <1>2, <1>3, <1>4, <1>5, <1>6, SessionMoves

\* Once the command line's run was refused a call its program makes no other.
LEMMA SilentStep ==
  ASSUME Framed, Quiet, way = "command", came = "refused", [Next]_vars
  PROVE  Silent'
<1>0. /\ Silent /\ turn = 1 /\ turn \in Runs
  BY RunNumbers DEF Quiet, Silent, Framed
<1> USE <1>0, FrameFacts DEF Framed
<1>1. CASE UNCHANGED runVars
  BY <1>1 DEF Silent
<1>2. CASE RtMoves
  <2>1. UNCHANGED <<turn, caller>>
    BY <1>2 DEF RtMoves, Makes, Asks, Ends, Writes, Exits, Dies
  <2>2. CASE caller = "says"
    BY <2>1, <2>2 DEF Silent
  <2>3. CASE caller # "says"
    <3>1. /\ rt[turn] \in {"stops", "ends", "gone"}
          /\ ~Has("calls", pipe) /\ ~Has("calls", channel)
          /\ caller \in {"reads", "leaves", "waits", "idle"}
      BY <2>3 DEF Silent
    <3>2. CASE Ends
      <4>1. channel' = Append(channel, "ends") /\ pipe' = pipe
            /\ rt' = [rt EXCEPT ![turn] = "ends"]
        BY <3>2 DEF Ends
      <4>2. ~Has("calls", channel')
        BY <3>1, <4>1, AppendFrame
      <4> QED
        BY <2>1, <3>1, <4>1, <4>2 DEF Silent
    <3>3. CASE Writes
      <4>1. /\ pipe' = Append(pipe, Head(channel)) /\ channel' = Tail(channel)
            /\ channel # <<>> /\ rt' = rt
        BY <3>3 DEF Writes
      <4>2. Head(channel) # "calls" /\ Head(channel) \in Kinds
        BY <3>1, <4>1, TailFrame
      <4>3. ~Has("calls", channel')
        BY <3>1, <4>1, TailFrame
      <4>4. ~Has("calls", pipe')
        BY <3>1, <4>1, <4>2, AppendFrame
      <4> QED
        BY <2>1, <3>1, <4>1, <4>3, <4>4 DEF Silent
    <3>4. CASE Exits
      BY <2>1, <3>1, <3>4 DEF Exits, Silent
    <3>5. CASE Dies
      <4>1. channel' = <<>> /\ pipe' = pipe /\ rt'[turn] \in {"stops", "ends", "gone"}
        BY <3>1, <3>5 DEF Dies, Killed
      <4> QED
        BY <2>1, <3>1, <4>1, EmptyFrames DEF Silent
    <3> QED
      BY <1>2, <3>1, <3>2, <3>3, <3>4, <3>5 DEF RtMoves, Makes, Asks
  <2> QED
    BY <2>2, <2>3
<1>3. CASE CallerActs
  <2>1. CASE turn < Turned /\ Begins
    BY <2>1 DEF Turned
  <2>2. CASE Routed(way = "pool") \/ NotRouted
    BY <2>2 DEF Silent, Routed, NotRouted
  <2>3. CASE ReadsNothing
    BY <2>3 DEF Silent, ReadsNothing, Moves
  <2>4. CASE Leaves
    <3>1. /\ caller = "leaves" /\ caller' = "waits" /\ UNCHANGED <<turn, pipe>>
          /\ rt'[turn] \in {rt[turn], "gone"} /\ channel' \in {channel, <<>>}
      BY <2>4 DEF Leaves, Moves, Killed
    <3> QED
      BY <3>1, EmptyFrames DEF Silent
  <2>5. CASE Reaps
    BY <2>5 DEF Silent, Reaps
  <2> QED
    BY <1>3, <2>1, <2>2, <2>3, <2>4, <2>5 DEF CallerActs
<1>4. CASE ReadsFrame
  <2>1. /\ caller = "reads" /\ pipe # <<>> /\ pipe' = Tail(pipe)
        /\ UNCHANGED <<rt, channel, turn>>
    BY <1>4 DEF ReadsFrame, Reads, Moves
  <2>2. Head(pipe) \in Kinds /\ Head(pipe) # "calls" /\ ~Has("calls", pipe')
    BY <2>1, TailFrame DEF Silent
  <2>3. caller' \in {"reads", "leaves"}
    BY <1>4, <2>2 DEF ReadsFrame, Reads, Moves
  <2> QED
    BY <2>1, <2>2, <2>3 DEF Silent
<1>5. CASE CommandAsks \/ CommandAnswered
  BY <1>5 DEF CommandAsks, CommandAnswered, Silent
<1>6. CASE CommandSays
  <2>1. /\ caller = "says" /\ turn' = turn /\ UNCHANGED <<channel, pipe>>
        /\ \/ caller' = "reads" /\ rt' = [rt EXCEPT ![turn] = "stops"]
           \/ caller' = "leaves" /\ rt' = rt /\ rt[turn] # "asks"
    BY <1>6 DEF CommandSays, Says, Moves
  <2>2. channel = <<>> /\ pipe = <<>> /\ rt[turn] \in {"asks", "gone"}
    BY <2>1 DEF Emptied, Placing, Hosted
  <2> QED
    BY <2>1, <2>2, EmptyFrames DEF Silent
<1>7. UNCHANGED runVars \/ RtMoves \/ CallerActs \/ ReadsFrame \/ CommandAsks
        \/ CommandAnswered \/ CommandSays
  <2>1. CASE UNCHANGED vars
    BY <2>1 DEF vars
  <2>2. CASE RtActs
    BY <2>2 DEF RtActs, RtMoves
  <2>3. CASE HostActs \/ PackageActs \/ PoolActs \/ Over \/ WorkerActs
    BY <2>3 DEF HostActs, PackageActs, PoolActs, Over, WorkerActs
  <2> QED
    BY <2>1, <2>2, <2>3 DEF Next, CallsActs
<1> QED
  BY <1>1, <1>2, <1>3, <1>4, <1>5, <1>6, <1>7

LEMMA QuietStep == ASSUME Framed, Quiet, [Next]_vars PROVE Quiet'
<1>0. way' = way
  BY DEF Next, vars, relayVars, HostActs, RtActs, CallerActs, ReadsFrame, CallsActs,
         PackageActs, PoolActs, CommandAsks, CommandAnswered, CommandSays, Over,
         WorkerActs
<1>1. CASE way # "command"
  BY <1>0, <1>1 DEF Quiet
<1>2. CASE way = "command"
  <2>1. turn' <= 1
    <3>1. turn' = turn \/ (turn < Turned /\ Begins)
      <4>1. CASE ~CallerActs
        BY <4>1
        DEF Next, vars, runVars, callVars, HostActs, RtActs, ReadsFrame, CallsActs,
            PackageActs, PoolActs, CommandAsks, CommandAnswered, CommandSays, Over,
            WorkerActs, Makes, Asks, Ends, Writes, Exits, Dies, Reads, Relays,
            Relayed, HostGone, Says, ClockFires, ClockLooks, ClockFlags, ClockKills,
            ClockTells, Answers, Faults, Moves
      <4>2. CASE CallerActs
        BY <4>2 DEF CallerActs, Routed, NotRouted, ReadsNothing, Leaves, Reaps, Moves
      <4> QED
        BY <4>1, <4>2
    <3>2. turn \in Nat
      BY RunNumbers DEF Framed
    <3> QED
      BY <1>2, <3>1, <3>2 DEF Quiet, Turned, Begins
  <2>2. CASE came = "refused"
    BY <1>0, <1>2, <2>1, <2>2, SilentStep DEF Quiet
  <2>3. CASE came # "refused" /\ came' = "refused"
    <3>1. CommandAsks \/ CommandAnswered
      <4>1. CASE UNCHANGED vars
        BY <2>3, <4>1 DEF vars, sessionVars, toolVars
      <4>2. CASE HostActs \/ Over
        BY <2>3, <4>2
        DEF HostActs, HostWrites, HostLeaves, toolVars, Over, Exit
      <4>3. CASE RtActs \/ CallerActs \/ CommandSays
        BY <2>3, <4>3 DEF RtActs, CallerActs, CommandSays, sessionVars, toolVars
      <4>4. CASE PackageActs \/ PoolActs \/ WorkerActs
        BY <1>2, <4>4 DEF PackageActs, PackageRuns, PoolActs, WorkerActs
      <4>5. CASE ReadsFrame
        BY <2>3, <4>5 DEF ReadsFrame, StreamWrite, sessionVars, toolVars
      <4> QED
        BY <4>1, <4>2, <4>3, <4>4, <4>5 DEF Next, CallsActs
    <3>2. caller = "hosts" /\ caller' = "says" /\ turn' = turn
      BY <2>3, <3>1 DEF CommandAsks, CommandAnswered, Moves, Send
    <3>3. turn \in Nat \ {0}
      BY <3>2, RunNumbers DEF Framed, Emptied
    <3> QED
      BY <1>0, <1>2, <2>1, <3>2, <3>3 DEF Quiet, Silent
  <2>4. CASE came' # "refused"
    BY <1>0, <2>1, <2>4 DEF Quiet
  <2> QED
    BY <2>2, <2>3, <2>4
<1> QED
  BY <1>1, <1>2

LEMMA AnsweredStep == Framed /\ Answered /\ [Next]_vars => Answered'
  BY CountedStep, QuietStep DEF Answered

\* Whatever the host writes and whichever process makes the calls, an answer
\* given to a call is its own, and a call without one is the last.
THEOREM AnswersItsCall == Spec => []OwnAnswer
<1>1. Answered => OwnAnswer
  <2> SUFFICES ASSUME Answered PROVE Len(taken) >= calls - 1
    BY DEF OwnAnswer, Answered, Counted
  <2> QED
    BY DEF Answered, Counted
<1> QED
  BY <1>1, FramedInit, FramedStep, AnsweredInit, AnsweredStep, PTL DEF Spec

-----------------------------------------------------------------------------
(* Tools: what the calls cost.  What a fold over numbers sums is found by    *)
(* induction on how far it has got, by the least counterexample.             *)

LEMMA NatSet ==
  ASSUME NEW S, 0 \in S, \A n \in Nat : n \in S => n + 1 \in S
  PROVE  Nat \subseteq S
<1> DEFINE T == Nat \ S
<1> SUFFICES ASSUME T # {} PROVE FALSE
  OBVIOUS
<1>1. PICK x \in T : \A y \in T : <<y, x>> \notin OpToRel(<, Nat)
  BY NatLessThanWellFounded, WFMin, Zenon
<1>2. x \in Nat /\ x - 1 \in Nat /\ x - 1 < x /\ (x - 1) + 1 = x
  OBVIOUS
<1>3. <<x - 1, x>> \in OpToRel(<, Nat)
  BY <1>2 DEF OpToRel
<1>4. x - 1 \notin T
  BY <1>1, <1>3, Zenon
<1> QED
  BY <1>2, <1>4

\* h is what the fold of the sequence of numbers c computes for the sets of
\* places in 1..k
Sums(h, c, k) ==
  /\ h = [s \in SUBSET (1..k) |-> h[s]]
  /\ \A s \in SUBSET (1..k) :
       h[s] = IF s = {} THEN 0 ELSE Plus(h[s \ {Max(s)}], c[Max(s)])

LEMMA MaxOfNext ==
  ASSUME NEW k \in Nat, NEW s \in SUBSET (1..(k + 1)), k + 1 \in s
  PROVE  Max(s) = k + 1
<1>1. /\ \A y \in s : k + 1 >= y
      /\ \A x \in s : (\A y \in s : x >= y) => x = k + 1
  OBVIOUS
<1> QED
  BY <1>1 DEF Max

LEMMA SumGrows ==
  ASSUME NEW c, NEW k \in Nat, NEW h, Sums(h, c, k)
  PROVE  \E g : Sums(g, c, k + 1)
<1> DEFINE g == [s \in SUBSET (1..(k + 1)) |->
                  IF k + 1 \in s THEN Plus(h[s \ {k + 1}], c[k + 1]) ELSE h[s]]
<1>1. g = [s \in SUBSET (1..(k + 1)) |-> g[s]]
  OBVIOUS
<1>2. ASSUME NEW s \in SUBSET (1..(k + 1)), k + 1 \notin s
      PROVE  g[s] = IF s = {} THEN 0 ELSE Plus(g[s \ {Max(s)}], c[Max(s)])
  <2>0. s \in SUBSET (1..k)
    BY <1>2
  <2>1. s \in SUBSET (1..k) /\ s \ {Max(s)} \in SUBSET (1..(k + 1))
        /\ k + 1 \notin s \ {Max(s)}
    BY <1>2, <2>0
  <2>2. g[s] = h[s] /\ g[s \ {Max(s)}] = h[s \ {Max(s)}]
    BY <1>2, <2>1
  <2>3. h[s] = IF s = {} THEN 0 ELSE Plus(h[s \ {Max(s)}], c[Max(s)])
    BY <2>1 DEF Sums
  <2> QED
    BY <2>2, <2>3
<1>3. ASSUME NEW s \in SUBSET (1..(k + 1)), k + 1 \in s
      PROVE  g[s] = IF s = {} THEN 0 ELSE Plus(g[s \ {Max(s)}], c[Max(s)])
  <2>1. Max(s) = k + 1
    BY <1>3, MaxOfNext
  <2>2. s \ {k + 1} \in SUBSET (1..(k + 1)) /\ k + 1 \notin s \ {k + 1}
    OBVIOUS
  <2>3. g[s] = Plus(h[s \ {k + 1}], c[k + 1]) /\ g[s \ {k + 1}] = h[s \ {k + 1}]
    BY <1>3, <2>2
  <2> QED
    BY <1>3, <2>1, <2>3
<1> HIDE DEF g
<1> QED
  BY <1>1, <1>2, <1>3 DEF Sums

LEMMA SumIs ==
  ASSUME NEW c, NEW n \in Nat, DOMAIN c = 1..n
  PROVE  \E h : Sums(h, c, n) /\ FoldLeft(Plus, 0, c) = h[1..n]
<1> DEFINE S == {k \in Nat : \E h : Sums(h, c, k)}
           it == CHOOSE h : h = [s \in SUBSET (1..n) |->
                   IF s = {} THEN 0 ELSE Plus(h[s \ {Max(s)}], c[Max(s)])]
<1>1. 0 \in S
  <2> DEFINE h == [s \in SUBSET (1..0) |-> 0]
  <2>1. 1..0 = {}
    OBVIOUS
  <2>2. Sums(h, c, 0)
    BY <2>1 DEF Sums
  <2> QED
    BY <2>2
<1>2. \A k \in Nat : k \in S => k + 1 \in S
  BY SumGrows
<1>3. n \in S
  <2> HIDE DEF S
  <2> QED
    BY <1>1, <1>2, NatSet
<1>4. FoldLeft(Plus, 0, c) = it[1..n]
  BY DEF FoldLeft, MapThenFoldSet
<1>5. PICK h : Sums(h, c, n)
  BY <1>3
<1>6. h = [s \in SUBSET (1..n) |->
            IF s = {} THEN 0 ELSE Plus(h[s \ {Max(s)}], c[Max(s)])]
  BY <1>5 DEF Sums
<1>7. it = [s \in SUBSET (1..n) |->
             IF s = {} THEN 0 ELSE Plus(it[s \ {Max(s)}], c[Max(s)])]
  BY <1>6
<1> HIDE DEF it
<1>8. Sums(it, c, n)
  BY <1>7 DEF Sums
<1> QED
  BY <1>4, <1>8

\* one number more adds it
LEMMA SumOfNext ==
  ASSUME NEW c, NEW n \in Nat, DOMAIN c = 1..n, NEW d, DOMAIN d = 1..(n + 1),
         \A i \in 1..n : d[i] = c[i]
  PROVE  FoldLeft(Plus, 0, d) = FoldLeft(Plus, 0, c) + d[n + 1]
<1>1. PICK h : Sums(h, c, n) /\ FoldLeft(Plus, 0, c) = h[1..n]
  BY SumIs
<1>2. PICK g : Sums(g, d, n + 1) /\ FoldLeft(Plus, 0, d) = g[1..(n + 1)]
  BY SumIs
<1> DEFINE S == {k \in Nat : k <= n => g[1..k] = h[1..k]}
<1>3. \A k \in Nat : /\ 1..(k + 1) \in SUBSET (1..(k + 1)) /\ k + 1 \in 1..(k + 1)
                     /\ (1..(k + 1)) \ {k + 1} = 1..k /\ 1..(k + 1) # {}
  OBVIOUS
<1>4. \A k \in Nat : Max(1..(k + 1)) = k + 1
  BY <1>3, MaxOfNext
<1>5. \A k \in Nat : k <= n => g[1..(k + 1)] = Plus(g[1..k], d[k + 1])
  <2> TAKE k \in Nat
  <2> HAVE k <= n
  <2>1. 1..(k + 1) \in SUBSET (1..(n + 1))
    OBVIOUS
  <2> DEFINE s == 1..(k + 1)
  <2>2. s # {} /\ Max(s) = k + 1 /\ s \ {k + 1} = 1..k
    BY <1>3, <1>4
  <2>3. g[s] = IF s = {} THEN 0 ELSE Plus(g[s \ {Max(s)}], d[Max(s)])
    BY <1>2, <2>1 DEF Sums
  <2> HIDE DEF s
  <2>4. g[s] = Plus(g[1..k], d[k + 1])
    BY <2>2, <2>3
  <2> QED
    BY <2>4 DEF s
<1>6. \A k \in Nat : k < n => h[1..(k + 1)] = Plus(h[1..k], c[k + 1])
  <2> TAKE k \in Nat
  <2> HAVE k < n
  <2>1. 1..(k + 1) \in SUBSET (1..n)
    OBVIOUS
  <2> DEFINE s == 1..(k + 1)
  <2>2. s # {} /\ Max(s) = k + 1 /\ s \ {k + 1} = 1..k
    BY <1>3, <1>4
  <2>3. h[s] = IF s = {} THEN 0 ELSE Plus(h[s \ {Max(s)}], c[Max(s)])
    BY <1>1, <2>1 DEF Sums
  <2> HIDE DEF s
  <2>4. h[s] = Plus(h[1..k], c[k + 1])
    BY <2>2, <2>3
  <2> QED
    BY <2>4 DEF s
<1>7. 0 \in S
  <2>1. 1..0 = {} /\ {} \in SUBSET (1..n) /\ {} \in SUBSET (1..(n + 1))
    OBVIOUS
  <2>2. h[{}] = 0 /\ g[{}] = 0
    BY <1>1, <1>2, <2>1 DEF Sums
  <2> QED
    BY <2>1, <2>2
<1>8. \A k \in Nat : k \in S => k + 1 \in S
  BY <1>5, <1>6
<1>9. n \in S
  <2> HIDE DEF S
  <2> QED
    BY <1>7, <1>8, NatSet
<1>10. g[1..(n + 1)] = Plus(g[1..n], d[n + 1]) /\ g[1..n] = h[1..n]
  BY <1>5, <1>9
<1> QED
  BY <1>1, <1>2, <1>10 DEF Plus

LEMMA SumOfNone == ASSUME NEW c, DOMAIN c = {} PROVE FoldLeft(Plus, 0, c) = 0
<1>1. DOMAIN c = 1..0 /\ 1..0 = {}
  OBVIOUS
<1>2. PICK h : Sums(h, c, 0) /\ FoldLeft(Plus, 0, c) = h[1..0]
  BY <1>1, SumIs
<1> QED
  BY <1>1, <1>2 DEF Sums

\* the same answers of the same calls cost the same
LEMMA SameCosts ==
  ASSUME NEW n \in Nat, \A i \in 1..n : taken'[i] = taken[i] /\ sent'[i] = sent[i]
  PROVE  FoldLeft(Plus, 0, [i \in 1..n |-> CostOf(taken'[i], sent'[i])]) = Spent(n)
<1>1. [i \in 1..n |-> CostOf(taken'[i], sent'[i])] = Costs(n)
  BY DEF Costs
<1> QED
  BY <1>1 DEF Spent

\* what answers cost is what was added up, and each call was sent the tool it
\* is noted with; the ceiling was held when the last was sent
Paid ==
  /\ sent \in Seq(Tools) /\ Len(sent) = calls
  /\ cost = Spent(Len(taken))
  /\ open # None => open = Call(sent[calls], Opened.form)
  /\ CeilingHeld

LEMMA PaidInit == Init => Paid
<1> SUFFICES ASSUME Init PROVE Paid
  OBVIOUS
<1>1. /\ sent = <<>> /\ taken = <<>> /\ calls = 0 /\ cost = 0 /\ open = None
  BY DEF Init, ToolsInit
<1>2. Spent(0) = 0
  <2>1. DOMAIN Costs(0) = {}
    BY DEF Costs
  <2> QED
    BY <2>1, SumOfNone DEF Spent
<1> QED
  BY <1>1, <1>2, OffersAssumption DEF Paid, CeilingHeld

LEMMA PaidStep == ASSUME Answered, Paid, [Next]_vars PROVE Paid'
<1>0. calls \in Nat /\ Len(taken) \in Nat /\ taken \in Seq(Lines)
  BY DEF Answered, Counted
<1>1. ASSUME UNCHANGED <<open, calls, cost, sent, taken>> PROVE Paid'
  BY <1>1 DEF Paid, CeilingHeld, Spent, Costs, Opened
<1>2. CASE UNCHANGED toolVars \/ Exit \/ Refuse \/ \E whole \in BOOLEAN : StreamWrite(whole)
  BY <1>1, <1>2 DEF toolVars, Exit, Refuse, StreamWrite
<1>3. ASSUME NEW t \in Tools, NEW f \in Forms, came # "refused", Send(t, f) PROVE Paid'
  <2>1. /\ open = None /\ calls' = calls + 1 /\ UNCHANGED <<cost, taken>>
        /\ sent' = Append(sent, t) /\ open' = Call(t, f) /\ Allowed(t, f)
    BY <1>3 DEF Send
  <2>2. Len(taken) = calls
    BY <1>3, <2>1 DEF Answered, Counted
  <2>3. /\ sent' \in Seq(Tools) /\ Len(sent') = calls' /\ sent'[calls'] = t
        /\ \A i \in 1..calls : sent'[i] = sent[i]
    BY <1>0, <2>1 DEF Paid
  <2>4. FoldLeft(Plus, 0, [i \in 1..calls |-> CostOf(taken'[i], sent'[i])]) = cost
    BY <1>0, <2>1, <2>2, <2>3, SameCosts DEF Paid
  <2>5. cost' = Spent(Len(taken))'
    BY <2>1, <2>2, <2>4 DEF Spent, Costs
  <2>6. Spent(calls - 1)' = cost
    <3>1. calls' - 1 = calls
      BY <1>0, <2>1
    <3>2. Spent(calls - 1)' =
            FoldLeft(Plus, 0, [i \in 1..(calls' - 1) |-> CostOf(taken'[i], sent'[i])])
      BY DEF Spent, Costs
    <3> QED
      BY <2>4, <3>1, <3>2
  <2>7. calls' <= MaxCalls /\ cost + Offers[t].cost <= MaxCost
    BY <1>0, <2>1, OffersAssumption DEF Allowed
  <2>8. CeilingHeld'
    BY <2>3, <2>6, <2>7 DEF CeilingHeld
  <2>9. open' = Call(sent'[calls'], Opened'.form)
    <3>1. open' = {[tool |-> t, form |-> f]}
      BY <2>1 DEF Call
    <3>2. Opened' = [tool |-> t, form |-> f]
      BY <3>1 DEF Opened
    <3>3. Opened'.form = f
      BY <3>2
    <3> QED
      BY <2>1, <2>3, <3>3
  <2> QED
    BY <2>3, <2>5, <2>8, <2>9 DEF Paid
<1>4. CASE Reply
  <2>0. open # None /\ open' = None /\ UNCHANGED <<calls, sent>>
    BY <1>4 DEF Reply
  <2>1. Len(taken) = calls - 1
    BY <2>0 DEF Answered, Counted
  <2>2. CASE UNCHANGED <<cost, taken>>
    BY <2>0, <2>2 DEF Paid, CeilingHeld, Spent, Costs
  <2>3. CASE Matches(Head(queue)) /\ ~ UNCHANGED <<cost, taken>>
    <3> DEFINE l == Head(queue)
    <3>1. l \in Lines /\ taken' = Append(taken, l) /\ cost' = cost + CostOf(l, sent[calls])
      <4>1. taken' = Append(taken, l) /\ cost' = cost + CostOf(l, Opened.tool)
        BY <1>4, <2>3 DEF Reply
      <4>2. open = {[tool |-> sent[calls], form |-> Opened.form]}
        BY <2>0 DEF Paid, Call
      <4>3. Opened = [tool |-> sent[calls], form |-> Opened.form]
        BY <4>2 DEF Opened
      <4>4. Opened.tool = sent[calls]
        BY <4>3
      <4> QED
        BY <2>3, <4>1, <4>4 DEF Matches
    <3> HIDE DEF l
    <3>2. /\ Len(taken') = calls /\ taken'[calls] = l
          /\ \A i \in 1..(calls - 1) : taken'[i] = taken[i]
      BY <1>0, <2>1, <3>1
    <3>3. calls - 1 \in Nat /\ calls = (calls - 1) + 1
      BY <1>0, <2>1
    <3> DEFINE d == [i \in 1..calls |-> CostOf(taken'[i], sent'[i])]
               c == [i \in 1..(calls - 1) |-> CostOf(taken'[i], sent'[i])]
    <3>4. FoldLeft(Plus, 0, c) = Spent(calls - 1)
      BY <2>0, <3>2, <3>3, SameCosts
    <3>5. FoldLeft(Plus, 0, d) = FoldLeft(Plus, 0, c) + d[calls]
      <4>1. DOMAIN c = 1..(calls - 1) /\ DOMAIN d = 1..((calls - 1) + 1)
            /\ \A i \in 1..(calls - 1) : d[i] = c[i]
        BY <3>3
      <4> HIDE DEF c, d
      <4> QED
        BY <3>3, <4>1, SumOfNext
    <3>6. d[calls] = CostOf(l, sent[calls])
      BY <2>0, <3>2, <3>3
    <3>7. cost' = FoldLeft(Plus, 0, d)
      <4> HIDE DEF c, d
      <4> QED
        BY <2>1, <3>1, <3>4, <3>5, <3>6 DEF Paid
    <3>8. cost' = Spent(Len(taken))'
      BY <3>2, <3>7 DEF Spent, Costs
    <3>9. Spent(calls - 1)' = Spent(calls - 1)
      BY <2>0, <3>4 DEF Spent, Costs
    <3>10. CeilingHeld'
      BY <2>0, <3>9 DEF Paid, CeilingHeld
    <3> QED
      BY <2>0, <3>8, <3>10 DEF Paid
  <2> QED
    BY <1>4, <2>2, <2>3 DEF Reply
<1>5. CASE NoReply
  BY <1>5 DEF NoReply, Paid, CeilingHeld, Spent, Costs
<1>6. Quiet
  BY DEF Answered
<1> QED
  BY <1>2, <1>3, <1>4, <1>5, <1>6, SessionMoves

\* Whatever the host charges, a run sends no call past the ceiling of calls, nor
\* one whose cost, with what the calls before came to, is past that of cost.
THEOREM CeilingIsHeld == Spec => []CeilingHeld
<1>1. Paid => CeilingHeld
  BY DEF Paid
<1>2. Framed /\ Answered /\ Paid /\ [Next]_vars => Paid'
  BY PaidStep
<1> QED
  BY <1>1, <1>2, FramedInit, FramedStep, AnsweredInit, AnsweredStep, PaidInit,
     PTL DEF Spec

-----------------------------------------------------------------------------
(* Tools: what is written to the host. *)

Events == [event : {"ready", "output", "call", "exit"}, n : Nat, after : Nat]

\* p times printed is written
Shown(d, p) == p = 0 \/ \E j \in DOMAIN d : d[j].event = "output" /\ d[j].n = p
CallsOf(d)  == {j \in DOMAIN d : d[j].event = "call"}
Ordered(d)  ==
  \A i \in DOMAIN d : d[i].event \in {"call", "exit"} =>
    d[i].after = 0 \/ \E j \in 1..(i - 1) :
      d[j].event = "output" /\ d[j].n = d[i].after
Numbered(d) ==
  \A i \in DOMAIN d : d[i].event = "call" =>
    d[i].n = Cardinality({j \in 1..i : d[j].event = "call"})
Closed(d)   == \A i \in DOMAIN d : d[i].event = "exit" => i = Len(d)
Unclosed(d) == \A i \in DOMAIN d : d[i].event # "exit"

LEMMA AppendEvent ==
  ASSUME NEW d \in Seq(Events), NEW e \in Events,
         Ordered(d), Numbered(d), Unclosed(d),
         e.event = "call" => e.n = Cardinality(CallsOf(d)) + 1,
         e.event \in {"call", "exit"} => Shown(d, e.after)
  PROVE  /\ Append(d, e) \in Seq(Events)
         /\ Ordered(Append(d, e)) /\ Numbered(Append(d, e)) /\ Closed(Append(d, e))
         /\ e.event # "exit" => Unclosed(Append(d, e))
         /\ Cardinality(CallsOf(Append(d, e)))
              = Cardinality(CallsOf(d)) + (IF e.event = "call" THEN 1 ELSE 0)
         /\ \A p : Shown(d, p) => Shown(Append(d, e), p)
         /\ e.event = "output" => Shown(Append(d, e), e.n)
<1> DEFINE a == Append(d, e)  n == Len(d) + 1
<1>1. /\ a \in Seq(Events) /\ n \in Nat \ {0} /\ Len(a) = n
      /\ DOMAIN d = 1..(n - 1) /\ DOMAIN a = 1..n
      /\ \A i \in DOMAIN d : a[i] = d[i]
      /\ a[n] = e
  OBVIOUS
<1>2. \A i \in DOMAIN a : i \in DOMAIN d \/ i = n
  BY <1>1
<1>3. /\ DOMAIN d \subseteq DOMAIN a /\ n \in DOMAIN a /\ n \notin DOMAIN d
      /\ DOMAIN d \subseteq Nat /\ \A i \in DOMAIN d : i < n
  BY <1>1
<1> HIDE DEF a, n
<1>4. /\ \A p : Shown(d, p) => Shown(a, p)
      /\ e.event = "output" => Shown(a, e.n)
  BY <1>1, <1>3 DEF Shown
<1>5. Ordered(a)
  <2> SUFFICES ASSUME NEW i \in DOMAIN a, a[i].event \in {"call", "exit"}
               PROVE  a[i].after = 0 \/ \E j \in 1..(i - 1) :
                        a[j].event = "output" /\ a[j].n = a[i].after
    BY DEF Ordered
  <2>1. CASE i \in DOMAIN d
    <3>1. d[i].after = 0 \/ \E j \in 1..(i - 1) :
            d[j].event = "output" /\ d[j].n = d[i].after
      BY <1>1, <2>1 DEF Ordered
    <3>2. \A j \in 1..(i - 1) : j \in DOMAIN d
      BY <1>1, <2>1
    <3> QED
      BY <1>1, <2>1, <3>1, <3>2
  <2>2. CASE i = n
    <3>1. Shown(d, e.after)
      BY <1>1, <2>2
    <3> QED
      BY <1>1, <2>2, <3>1 DEF Shown
  <2> QED
    BY <1>2, <2>1, <2>2
<1>6. CallsOf(a) = IF e.event = "call" THEN CallsOf(d) \union {n} ELSE CallsOf(d)
  BY <1>1, <1>2, <1>3 DEF CallsOf
<1>7. IsFiniteSet(CallsOf(d)) /\ Cardinality(CallsOf(d)) \in Nat
  <2>1. CallsOf(d) \in SUBSET (1..Len(d)) /\ Len(d) \in Nat
    BY DEF CallsOf
  <2>2. IsFiniteSet(1..Len(d))
    BY <2>1, FS_Interval
  <2>3. IsFiniteSet(CallsOf(d))
    BY ONLY <2>1, <2>2, FS_Subset
  <2> QED
    BY ONLY <2>3, FS_CardinalityType
<1>8. Cardinality(CallsOf(a))
        = Cardinality(CallsOf(d)) + (IF e.event = "call" THEN 1 ELSE 0)
  <2>1. n \notin CallsOf(d)
    BY <1>3 DEF CallsOf
  <2>2. CASE e.event = "call"
    BY <1>6, <1>7, <2>1, <2>2, FS_AddElement
  <2>3. CASE e.event # "call"
    BY <1>6, <1>7, <2>3
  <2> QED
    BY <2>2, <2>3
<1>9. Numbered(a)
  <2> SUFFICES ASSUME NEW i \in DOMAIN a, a[i].event = "call"
               PROVE  a[i].n = Cardinality({j \in 1..i : a[j].event = "call"})
    BY DEF Numbered
  <2>1. CASE i \in DOMAIN d
    <3>1. \A j \in 1..i : a[j] = d[j]
      BY <1>1, <2>1
    <3>2. {j \in 1..i : a[j].event = "call"} = {j \in 1..i : d[j].event = "call"}
      BY <3>1
    <3> QED
      BY <1>1, <2>1, <3>2 DEF Numbered
  <2>2. CASE i = n
    <3>1. {j \in 1..i : a[j].event = "call"} = CallsOf(a)
      BY <1>1, <2>2 DEF CallsOf
    <3> QED
      BY <1>1, <1>8, <2>2, <3>1
  <2> QED
    BY <1>2, <2>1, <2>2
<1>10. Closed(a) /\ (e.event # "exit" => Unclosed(a))
  BY <1>1, <1>2 DEF Closed, Unclosed
<1> QED
  BY <1>1, <1>4, <1>5, <1>8, <1>9, <1>10 DEF a

\* What is written is in order; what was printed is written or pending; and
\* after the exit nothing is.
Doored ==
  /\ door \in Seq(Events) /\ printed \in Nat /\ calls \in Nat
  /\ Ordered(door) /\ Numbered(door) /\ Cardinality(CallsOf(door)) = calls
  /\ pending \/ Shown(door, printed)
  /\ Closed(door)
  /\ ~over => Unclosed(door)
  /\ way = "command" /\ over => turn = 1 /\ caller = "idle"

\* door is d, what was printed is written there, and it can be written on
Writable(d) ==
  /\ d \in Seq(Events) /\ Ordered(d) /\ Numbered(d) /\ Unclosed(d)
  /\ Cardinality(CallsOf(d)) = calls /\ Shown(d, printed)

LEMMA DooredInit == Init => Doored
<1> SUFFICES ASSUME Init PROVE Doored
  OBVIOUS
<1> DEFINE e == Event("ready", 0, 0)
<1>1. e \in Events /\ e.event = "ready"
  BY DEF Event, Events
<1> HIDE DEF e
<1>2. <<e>> \in Seq(Events) /\ DOMAIN <<e>> = {1} /\ <<e>>[1] = e
  BY <1>1
<1>3. CallsOf(<<e>>) = {}
  BY <1>1, <1>2 DEF CallsOf
<1>4. door = <<e>> /\ printed = 0 /\ calls = 0 /\ ~over
  BY DEF Init, ToolsInit, e
<1>5. Cardinality(CallsOf(door)) = 0
  BY <1>3, <1>4, FS_EmptySet
<1> QED
  BY <1>1, <1>2, <1>4, <1>5
  DEF Doored, Ordered, Numbered, Shown, Closed, Unclosed

\* Every event is written before the exit.
LEMMA DoorMoves ==
  ASSUME Framed, Quiet, Doored, [Next]_vars
  PROVE  \/ UNCHANGED <<door, printed, pending, calls, over>>
         \/ ~over /\ ~over' /\ \E whole \in BOOLEAN : StreamWrite(whole)
         \/ ~over /\ ~over' /\ \E t \in Tools, f \in Forms : Send(t, f)
         \/ ~over /\ over' /\ Exit
<1>1. CASE UNCHANGED vars
  BY <1>1 DEF vars, relayVars, sessionVars, toolVars
<1>2. CASE HostActs
  BY <1>2 DEF HostActs, HostWrites, HostLeaves, toolVars, relayVars
<1>3. CASE RtActs \/ CallerActs \/ PoolActs \/ WorkerActs \/ CommandSays
  BY <1>3 DEF RtActs, CallerActs, PoolActs, WorkerActs, CommandSays, sessionVars,
              toolVars, relayVars
<1>4. CASE PackageActs
  BY <1>4 DEF PackageActs, PackageRuns, Refuse, Reply, NoReply, relayVars
<1>5. CASE ReadsFrame
  BY <1>5 DEF ReadsFrame, Reads, Doored, sessionVars, toolVars, relayVars
<1>6. CASE CommandAsks
  BY <1>6 DEF CommandAsks, Refuse, Doored, relayVars
<1>7. CASE CommandAnswered
  BY <1>7 DEF CommandAnswered, Reply, NoReply, relayVars
<1>8. CASE Over
  BY <1>8 DEF Over
<1> QED
  BY <1>1, <1>2, <1>3, <1>4, <1>5, <1>6, <1>7, <1>8 DEF Next, CallsActs

\* What was printed is written before what follows it.
LEMMA FlushedDoor == ASSUME Doored, ~over PROVE Writable(Flushed)
<1> DEFINE e == Event("output", printed, 0)
<1>1. e \in Events /\ e.event = "output" /\ e.n = printed
  BY DEF Event, Events, Doored
<1> HIDE DEF e
<1>2. CASE pending
  <2>1. Flushed = Append(door, e)
    BY <1>2 DEF Flushed, e
  <2>2. Cardinality(CallsOf(door)) + 0 = calls
    BY DEF Doored
  <2> QED
    BY <1>1, <2>1, <2>2, AppendEvent DEF Doored, Writable
<1>3. CASE ~pending
  BY <1>3 DEF Flushed, Doored, Writable
<1> QED
  BY <1>2, <1>3

LEMMA DooredStep == Framed /\ Quiet /\ Doored /\ [Next]_vars => Doored'
<1> SUFFICES ASSUME Framed, Quiet, Doored, [Next]_vars PROVE Doored'
  OBVIOUS
<1> DEFINE Door ==
      /\ door \in Seq(Events) /\ printed \in Nat /\ calls \in Nat
      /\ Ordered(door) /\ Numbered(door) /\ Cardinality(CallsOf(door)) = calls
      /\ pending \/ Shown(door, printed)
      /\ Closed(door)
      /\ ~over => Unclosed(door)
<1>1. Door'
  <2>1. CASE UNCHANGED <<door, printed, pending, calls, over>>
    BY <2>1 DEF Doored
  <2>2. ASSUME ~over, ~over', NEW whole \in BOOLEAN, StreamWrite(whole) PROVE Door'
    <3> DEFINE e == Event("output", printed + 1, 0)
    <3>1. e \in Events /\ e.event = "output" /\ e.n = printed + 1
      BY DEF Event, Events, Doored
    <3>2. /\ printed' = printed + 1 /\ calls' = calls /\ pending' = ~whole
          /\ door' = IF whole THEN Append(door, e) ELSE door
      BY <2>2 DEF StreamWrite
    <3> HIDE DEF e
    <3>3. CASE whole
      <4>1. door' = Append(door, e) /\ Cardinality(CallsOf(door)) + 0 = calls
        BY <3>2, <3>3 DEF Doored
      <4>2. /\ door' \in Seq(Events) /\ Ordered(door') /\ Numbered(door')
            /\ Closed(door') /\ Unclosed(door') /\ Shown(door', printed + 1)
            /\ Cardinality(CallsOf(door')) = calls
        BY <2>2, <3>1, <4>1, AppendEvent DEF Doored
      <4> QED
        BY <3>2, <4>2 DEF Doored
    <3>4. CASE ~whole
      <4>1. pending' /\ door' = door
        BY <3>2, <3>4
      <4> QED
        BY <2>2, <3>2, <4>1 DEF Doored
    <3> QED
      BY <3>3, <3>4
  <2>3. ASSUME ~over, ~over', NEW t \in Tools, NEW f \in Forms, Send(t, f) PROVE Door'
    <3> DEFINE e == Event("call", calls + 1, printed)
    <3>1. /\ e \in Events /\ e.event = "call" /\ e.n = calls + 1 /\ e.after = printed
      BY DEF Event, Events, Doored
    <3>2. /\ printed' = printed /\ calls' = calls + 1 /\ door' = Append(Flushed, e)
      BY <2>3 DEF Send
    <3> HIDE DEF e
    <3>3. Writable(Flushed)
      BY <2>3, FlushedDoor
    <3>4. /\ door' \in Seq(Events) /\ Ordered(door') /\ Numbered(door')
          /\ Closed(door') /\ Unclosed(door') /\ Shown(door', printed)
          /\ Cardinality(CallsOf(door')) = calls + 1
      BY <3>1, <3>2, <3>3, AppendEvent DEF Writable
    <3> QED
      BY <3>2, <3>4 DEF Doored
  <2>4. CASE ~over /\ over' /\ Exit
    <3> DEFINE e == Event("exit", 0, printed)
    <3>1. e \in Events /\ e.event = "exit" /\ e.after = printed
      BY DEF Event, Events, Doored
    <3>2. printed' = printed /\ calls' = calls /\ door' = Append(Flushed, e)
      BY <2>4 DEF Exit
    <3> HIDE DEF e
    <3>3. Writable(Flushed)
      BY <2>4, FlushedDoor
    <3>4. /\ door' \in Seq(Events) /\ Ordered(door') /\ Numbered(door')
          /\ Closed(door') /\ Shown(door', printed)
          /\ Cardinality(CallsOf(door')) = calls + 0
      BY <3>1, <3>2, <3>3, AppendEvent DEF Writable
    <3> QED
      BY <2>4, <3>2, <3>4 DEF Doored
  <2> QED
    BY <2>1, <2>2, <2>3, <2>4, DoorMoves
<1>2. way' = "command" /\ over' => turn' = 1 /\ caller' = "idle"
  <2>1. CASE Over
    <3>1. /\ UNCHANGED <<turn, caller, way>>
          /\ way = "command" => told[1] # "none"
      BY <2>1 DEF Over, runVars, callVars
    <3>2. 1 \in Runs /\ turn \in Nat
      BY RtAssumption, RunNumbers DEF Runs, Framed
    <3> QED
      BY <3>1, <3>2 DEF Quiet, Framed, Past
  <2>2. CASE ~Over
    <3>1. /\ over' = over /\ way' = way
      BY <2>2
      DEF Next, vars, relayVars, HostActs, RtActs, CallerActs, ReadsFrame,
          CallsActs, PackageActs, PoolActs, CommandAsks, CommandAnswered,
          CommandSays, WorkerActs
    <3> SUFFICES ASSUME way = "command", over, turn = 1, caller = "idle"
                 PROVE  turn' = turn /\ caller' = caller
      BY <3>1 DEF Doored
    <3>2. CASE UNCHANGED runVars \/ RtMoves
      BY <3>2
      DEF runVars, callVars, RtMoves, Makes, Asks, Ends, Writes, Exits, Dies
    <3>3. CASE CallerActs
      BY <3>3
      DEF CallerActs, Turned, Routed, NotRouted, ReadsNothing, Leaves, Reaps
    <3>4. CASE ReadsFrame \/ CommandAsks \/ CommandAnswered \/ CommandSays
      BY <3>4 DEF ReadsFrame, Reads, CommandAsks, CommandAnswered, CommandSays, Says
    <3>5. CASE UNCHANGED vars \/ RtActs
      BY <3>2, <3>5 DEF vars, RtActs, RtMoves
    <3>6. CASE HostActs \/ PackageActs \/ PoolActs \/ WorkerActs
      BY <3>2, <3>6 DEF HostActs, PackageActs, PoolActs, WorkerActs
    <3> QED
      BY <2>2, <3>3, <3>4, <3>5, <3>6 DEF Next, CallsActs
  <2> QED
    BY <2>1, <2>2
<1> QED
  BY <1>1, <1>2 DEF Doored

\* Whatever a run prints, asks and is answered, the host reads it in the order
\* it was done: prints before the calls that follow them, calls by number, and
\* nothing after the exit.
THEOREM DoorIsInOrder == Spec => []DoorInOrder
<1>1. Doored => DoorInOrder
  BY DEF Doored, Ordered, Numbered, Closed, DoorInOrder
<1> QED
  BY <1>1, FramedInit, FramedStep, AnsweredInit, AnsweredStep, DooredInit, DooredStep,
     PTL DEF Spec, Answered

-----------------------------------------------------------------------------
(* What is recorded. *)

Recorded ==
  /\ calls \in Nat /\ noted = 1..calls
  /\ way = "command" =>
       /\ merged \subseteq noted
       /\ \/ merged = noted
          \/ caller \in {"hosts", "says"}
          \/ caller \in Left /\ got = "none"
          \/ turn = 1 /\ caller = "idle" /\ told[1] # "finished"

LEMMA RecordedInit == Init => Recorded
  BY DEF Init, ToolsInit, Recorded

LEMMA NotedStep ==
  ASSUME Quiet, Recorded, [Next]_vars
  PROVE  /\ calls' \in Nat /\ noted' = 1..calls'
         /\ noted' = noted \/ \E t \in Tools, f \in Forms : Send(t, f)
<1>1. CASE noted' = noted /\ calls' = calls
  BY <1>1 DEF Recorded
<1>2. CASE \E t \in Tools, f \in Forms : Send(t, f)
  <2>1. calls' = calls + 1 /\ noted' = noted \union {calls + 1}
    BY <1>2 DEF Send
  <2> QED
    BY <1>2, <2>1 DEF Recorded
<1> QED
  BY <1>1, <1>2, SessionMoves DEF toolVars, StreamWrite, Refuse, Reply, NoReply, Exit

LEMMA RecordedStep == Framed /\ Quiet /\ Recorded /\ [Next]_vars => Recorded'
<1> SUFFICES ASSUME Framed, Quiet, Recorded, [Next]_vars, way' = "command"
             PROVE  /\ merged' \subseteq noted'
                    /\ \/ merged' = noted'
                       \/ caller' \in {"hosts", "says"}
                       \/ caller' \in Left /\ got' = "none"
                       \/ turn' = 1 /\ caller' = "idle" /\ told'[1] # "finished"
  BY NotedStep DEF Recorded
<1>0. way = "command"
  BY DEF Next, vars, relayVars, HostActs, RtActs, CallerActs, ReadsFrame, CallsActs,
         PackageActs, PoolActs, CommandAsks, CommandAnswered, CommandSays, Over,
         WorkerActs
<1> USE <1>0 DEF Recorded
<1>1. CASE UNCHANGED vars
  BY <1>1 DEF vars, relayVars, sessionVars, toolVars, runVars, callVars
<1>2. CASE HostActs
  BY <1>2 DEF HostActs, HostWrites, HostLeaves, toolVars, relayVars, runVars, callVars
<1>3. CASE RtActs
  BY <1>3 DEF RtActs, Makes, Asks, Ends, Writes, Exits, Dies, relayVars, sessionVars,
              toolVars, callVars
<1>4. CASE CallerActs
  <2>0. UNCHANGED <<merged, noted>>
    BY <1>4 DEF CallerActs, relayVars, sessionVars, toolVars
  <2>1. CASE turn < Turned /\ Begins
    BY <2>0, <2>1 DEF Turned, Begins, Left
  <2>2. CASE Routed(way = "pool") \/ NotRouted
    BY <2>0, <2>2 DEF Routed, NotRouted, Left
  <2>3. CASE ReadsNothing
    BY <2>0, <2>3 DEF ReadsNothing, Moves, Left
  <2>4. CASE Leaves
    BY <2>0, <2>4 DEF Leaves, Moves, Left
  <2>5. CASE Reaps
    <3>1. /\ caller = "waits" /\ caller' = "idle" /\ turn' = turn
          /\ told' = [told EXCEPT ![turn] = Classify]
      BY <2>5 DEF Reaps
    <3>2. turn = 1 /\ 1 \in DOMAIN told
      BY <3>1, RunNumbers, FrameFacts DEF Quiet, Framed, Emptied
    <3>3. got = "none" => Classify # "finished"
      BY FrameFacts DEF Classify
    <3> QED
      BY <2>0, <3>1, <3>2, <3>3
  <2> QED
    BY <1>4, <2>1, <2>2, <2>3, <2>4, <2>5 DEF CallerActs
<1>5. CASE ReadsFrame
  <2>1. caller = "reads" /\ UNCHANGED <<merged, noted>>
    BY <1>5 DEF ReadsFrame, Reads, StreamWrite, relayVars, sessionVars, toolVars
  <2> QED
    BY <2>1 DEF Left
<1>6. CASE CommandAsks \/ CommandAnswered
  <2>1. caller' \in {"hosts", "says"} /\ merged' = merged
    BY <1>6 DEF CommandAsks, CommandAnswered, Moves, relayVars
  <2>2. noted \subseteq noted'
    BY NotedStep DEF Send
  <2> QED
    BY <2>1, <2>2
<1>7. CASE CommandSays
  <2>1. /\ caller = "says" /\ noted' = noted /\ got' = got
        /\ \/ merged' = merged \union noted
           \/ merged' = merged /\ caller' = "leaves"
    BY <1>7 DEF CommandSays, Says, Moves, sessionVars, toolVars
  <2> QED
    BY <2>1 DEF Left, Framed, Placing, Hosted
<1>8. CASE Over
  BY <1>8 DEF Over, Exit, runVars, callVars
<1>9. CASE PackageActs \/ PoolActs \/ WorkerActs
  BY <1>9 DEF PackageActs, PackageRuns, PoolActs, WorkerActs
<1> QED
  BY <1>1, <1>2, <1>3, <1>4, <1>5, <1>6, <1>7, <1>8, <1>9 DEF Next, CallsActs

\* However a run through sabline-rt ends, what its caller holds is all that was
\* written before; and the receipt of a run this process tells lists each call
\* its host was sent.
THEOREM ReceiptIsWhole == Spec => []RecordsWhole
<1>1. Framed => ToldWhole
  <2> SUFFICES ASSUME Framed, turn > 0, told[turn] # "none"
               PROVE  /\ heard = written
                      /\ told[turn] = "finished" => rt[turn] = "gone" /\ channel = <<>>
    BY DEF ToldWhole
  <2>1. turn \in Runs /\ turn \in Nat
    BY RunNumbers DEF Framed
  <2>2. caller = "idle" /\ (told[turn] = "finished" => rt[turn] = "gone")
    BY <2>1 DEF Framed, Past
  <2>3. channel = <<>> /\ pipe = <<>>
    BY <2>2 DEF Framed, Emptied
  <2>4. written = heard + 0 /\ heard \in Nat
    BY <2>3, EmptyFrames, FrameFacts DEF Framed, Sane
  <2> QED
    BY <2>2, <2>3, <2>4
<1>2. Framed /\ Quiet /\ Recorded => ReceiptLists
  <2> SUFFICES ASSUME Framed, Quiet, Recorded, way = "command", told[1] = "finished"
               PROVE  merged = noted
    BY DEF ReceiptLists, Recorded
  <2>1. 1 \in Runs /\ turn \in Nat
    BY RtAssumption, RunNumbers DEF Runs, Framed
  <2>2. turn = 1 /\ caller = "idle"
    BY <2>1 DEF Framed, Past, Quiet
  <2> QED
    BY <2>2 DEF Recorded, Left
<1> QED
  BY <1>1, <1>2, FramedInit, FramedStep, AnsweredInit, AnsweredStep, RecordedInit,
     RecordedStep, PTL DEF Spec, RecordsWhole, Answered

-----------------------------------------------------------------------------
(* The types, most of which the invariants above have. *)

LineTypes ==
  /\ queue \in Seq(Lines \union {TooLong, Nothing})
  /\ wrote \in 0..MaxLines /\ left \in BOOLEAN
CountTypes ==
  /\ came \in {"none", "refused", "failed", "value"}
  /\ cost \in Nat /\ printed \in 0..MaxPrints /\ pending \in BOOLEAN
  /\ open = None \/ \E t \in Tools, f \in Forms : open = Call(t, f)
RelayTypes ==
  /\ way \in Ways /\ merged \subseteq Nat /\ over \in BOOLEAN
  /\ notes \in 0..MaxNotes
  /\ ended \in {"no", "answered", "killed", "closed", "made"}
Rest == LineTypes /\ CountTypes /\ RelayTypes

LEMMA RestInit == Init => Rest
<1> SUFFICES ASSUME Init PROVE Rest
  OBVIOUS
<1>1. LineTypes
  <2>1. <<>> \in Seq(Lines \union {TooLong, Nothing})
    OBVIOUS
  <2>2. queue = <<>> /\ wrote = 0 /\ left = FALSE
    BY DEF Init, ToolsInit
  <2>3. 0 \in 0..MaxLines
    BY OffersAssumption
  <2> QED
    BY <2>1, <2>2, <2>3 DEF LineTypes
<1>2. CountTypes
  <2>1. came = "none" /\ cost = 0 /\ printed = 0 /\ pending = FALSE /\ open = None
    BY DEF Init, ToolsInit
  <2>2. 0 \in 0..MaxPrints /\ 0 \in Nat
    BY OffersAssumption
  <2> QED
    BY <2>1, <2>2 DEF CountTypes
<1>3. RelayTypes
  <2>1. way \in Ways /\ merged = {} /\ over = FALSE /\ notes = 0 /\ ended = "no"
    BY DEF Init, RecorderInit
  <2>2. 0 \in 0..MaxNotes
    BY RecorderAssumption
  <2> QED
    BY <2>1, <2>2 DEF RelayTypes
<1> QED
  BY <1>1, <1>2, <1>3 DEF Rest

LEMMA LineStep == ASSUME LineTypes, [Next]_vars PROVE LineTypes'
<1> DEFINE L == Lines \union {TooLong, Nothing}
<1>1. CASE UNCHANGED lineVars
  BY <1>1 DEF LineTypes
<1>2. CASE HostWrites
  <2>1. PICK l \in Lines : queue' = Append(queue, l) \/ queue' = queue \o <<TooLong, l>>
    BY <1>2 DEF HostWrites
  <2>2. queue \in Seq(L) /\ <<TooLong, l>> \in Seq(L) /\ l \in L
    BY DEF LineTypes
  <2> HIDE DEF L
  <2>3. Append(queue, l) \in Seq(L) /\ queue \o <<TooLong, l>> \in Seq(L)
    BY <2>2
  <2>4. queue' \in Seq(L)
    BY <2>1, <2>3
  <2>5. wrote' \in 0..MaxLines /\ left' = left
    BY <1>2, OffersAssumption DEF HostWrites, LineTypes
  <2> QED
    BY <2>4, <2>5 DEF LineTypes, L
<1>3. CASE HostLeaves
  <2>1. queue \in Seq(L) /\ Nothing \in L
    BY DEF LineTypes
  <2> HIDE DEF L
  <2>2. Append(queue, Nothing) \in Seq(L)
    BY <2>1
  <2> QED
    BY <1>3, <2>2 DEF HostLeaves, LineTypes, L
<1>4. CASE Reply
  <2>1. queue \in Seq(L) /\ queue # <<>>
    BY <1>4 DEF Reply, LineTypes
  <2> HIDE DEF L
  <2>2. Tail(queue) \in Seq(L)
    BY <2>1
  <2> QED
    BY <1>4, <2>2 DEF Reply, LineTypes, L
<1>5. UNCHANGED lineVars \/ HostWrites \/ HostLeaves \/ Reply
  BY DEF Next, vars, HostActs, RtActs, CallerActs, ReadsFrame, CallsActs, PackageActs,
         PoolActs, CommandAsks, CommandAnswered, CommandSays, Over, WorkerActs,
         StreamWrite, Refuse, Send, NoReply, Exit
<1> QED
  BY <1>1, <1>2, <1>3, <1>4, <1>5

LEMMA CountStep ==
  ASSUME Answered, CountTypes, LineTypes, [Next]_vars
  PROVE  CountTypes'
<1>0. Quiet
  BY DEF Answered
<1>1. CASE UNCHANGED toolVars \/ Exit \/ Refuse \/ NoReply
  BY <1>1 DEF CountTypes, Exit, Refuse, NoReply
<1>2. ASSUME NEW whole \in BOOLEAN, StreamWrite(whole) PROVE CountTypes'
  BY <1>2, OffersAssumption DEF CountTypes, StreamWrite
<1>3. ASSUME NEW t \in Tools, NEW f \in Forms, Send(t, f) PROVE CountTypes'
  BY <1>3 DEF CountTypes, Send
<1>4. CASE Reply
  <2> DEFINE l == Head(queue)
  <2>1. Opened.tool \in Tools
    <3>1. PICK t \in Tools, f \in Forms : open = Call(t, f)
      BY <1>4 DEF Reply, CountTypes
    <3>2. Opened = [tool |-> t, form |-> f]
      BY <3>1 DEF Opened, Call
    <3> QED
      BY <3>2
  <2>2. Matches(l) => CostOf(l, Opened.tool) \in Nat
    <3> HIDE DEF l
    <3> SUFFICES ASSUME Matches(l) PROVE CostOf(l, Opened.tool) \in Nat
      OBVIOUS
    <3>1. l \in Lines
      BY DEF Matches
    <3>2. l.cost \in Nat \union {Default}
      BY <3>1, LinesAssumption
    <3>3. Offers[Opened.tool].cost \in Nat
      BY <2>1, OffersAssumption
    <3> QED
      BY <3>2, <3>3 DEF CostOf
  <2>3. cost' = cost \/ (Matches(l) /\ cost' = cost + CostOf(l, Opened.tool))
    BY <1>4 DEF Reply
  <2>4. cost' \in Nat
    <3> HIDE DEF l
    <3> QED
      BY <2>2, <2>3 DEF CountTypes
  <2>5. came' \in {"refused", "failed", "value"} /\ open' = None
        /\ UNCHANGED <<printed, pending>>
    BY <1>4 DEF Reply
  <2> QED
    BY <2>4, <2>5 DEF CountTypes
<1> QED
  BY <1>0, <1>1, <1>2, <1>3, <1>4, SessionMoves

LEMMA RelayStep ==
  ASSUME Recorded, RelayTypes, [Next]_vars
  PROVE  RelayTypes'
<1>1. way' = way /\ (merged' \subseteq merged \union noted) /\ over' \in BOOLEAN
  BY DEF Next, vars, RelayTypes, HostActs, RtActs, CallerActs, ReadsFrame, CallsActs,
         PackageActs, PoolActs, CommandAsks, CommandAnswered, CommandSays, Over,
         WorkerActs
<1>2. /\ notes' \in 0..MaxNotes
      /\ ended' \in {"no", "answered", "killed", "closed", "made"}
  <2>1. CASE UNCHANGED recorderVars
    BY <2>1 DEF RelayTypes
  <2>2. CASE \E s \in Sites : Note(s)
    BY <2>2, RecorderAssumption DEF RelayTypes, Note
  <2>3. CASE Sends \/ Takes \/ Answer \/ Kill \/ Disposes \/ Receipt
    BY <2>3 DEF RelayTypes, Sends, Takes, Answer, Kill, Disposes, Receipt
  <2> QED
    BY <2>1, <2>2, <2>3, RecorderMoves
<1>3. noted \subseteq Nat
  BY DEF Recorded
<1> QED
  BY <1>1, <1>2, <1>3 DEF RelayTypes

\* Relay and the three it composes keep their types, for any tools, lines of a
\* host, frames, runs on one worker and notes.
THEOREM TypesHold == Spec => []TypeOK
<1>1. Framed /\ Answered /\ Recorded /\ Rest /\ [Next]_vars => Rest'
  BY LineStep, CountStep, RelayStep DEF Rest
<1>2. CountTypes => open \subseteq [tool : Tools, form : Forms] /\ Cardinality(open) <= 1
  <2>1. CASE open = None
    BY <2>1, FS_EmptySet DEF None
  <2>2. ASSUME NEW t \in Tools, NEW f \in Forms, open = Call(t, f)
        PROVE  open \subseteq [tool : Tools, form : Forms] /\ Cardinality(open) <= 1
    <3> DEFINE x == [tool |-> t, form |-> f]
    <3>1. open = {x} /\ x \in [tool : Tools, form : Forms]
      BY <2>2 DEF Call
    <3> HIDE DEF x
    <3>2. Cardinality({x}) = 1
      BY FS_Singleton
    <3> QED
      BY <3>1, <3>2
  <2> QED
    BY <2>1, <2>2 DEF CountTypes
<1>3. Framed /\ Answered /\ Recorded /\ Rest /\ Listed /\ Paid /\ Doored => TypeOK
  BY <1>2, SMTT(30) DEF Framed, RunTyped, Answered, Counted, Recorded, Rest, LineTypes, CountTypes,
              RelayTypes, Listed, RecTyped, Paid, Doored, Events, TypeOK, ToolsTypeOK,
              RecorderTypeOK
<1>4. Framed /\ Answered /\ Paid /\ [Next]_vars => Paid'
  BY PaidStep
<1>5. Framed /\ Answered /\ Recorded /\ [Next]_vars => Recorded'
  BY RecordedStep DEF Answered
<1>6. Framed /\ Answered /\ Doored /\ [Next]_vars => Doored'
  BY DooredStep DEF Answered
<1> QED
  BY <1>1, <1>3, <1>4, <1>5, <1>6, FramedInit, FramedStep, AnsweredInit, AnsweredStep,
     RecordedInit, RestInit, ListedInit, ListedStep, PaidInit, DooredInit, PTL DEF Spec
=============================================================================
