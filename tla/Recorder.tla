------------------------------- MODULE Recorder ------------------------------
(***************************************************************************)
(* What a pool keeps of a run its worker makes (sabline/recorder.py        *)
(* _RunRecorder, pool.py ask and _receipt): the worker counts each place a *)
(* refusal, a declassification or a tool call happens at, streams an entry *)
(* now and then, and answers with its receipt; or it is killed, or the     *)
(* pool is closed while its pipe is read, and the receipt is made from     *)
(* what it streamed and was read.                                          *)
(***************************************************************************)
EXTENDS Naturals, Sequences

CONSTANTS
  Sites,        \* kinds of note, each with its line and fields
  Every,        \* _RunRecorder.STREAM_EVERY
  MaxNotes      \* bound: notes of one run

ASSUME RecorderAssumption == Every \in Nat \ {0} /\ MaxNotes \in Nat

VARIABLES
  times,        \* the worker's entries: the times of each site
  notes,        \* how many notes there were
  sending,      \* the site whose entry is counted, and not yet written
  mute,         \* has the worker given up streaming?
  stream,       \* entries on the pipe
  dropped,      \* was the pipe closed with entries on it?
  kept,         \* the entries of the recorder made for a run with no answer
  ended         \* "no", "answered", "killed", "closed", or its receipt "made"

recorderVars == <<times, notes, sending, mute, stream, dropped, kept, ended>>

RecorderInit ==
  /\ times = [s \in Sites |-> 0] /\ notes = 0 /\ sending = {} /\ mute = FALSE
  /\ stream = <<>> /\ dropped = FALSE /\ kept = [s \in Sites |-> 0] /\ ended = "no"

Entry(s, n) == [site |-> s, times |-> n]

\* note: an occurrence is counted; the first of a site and every Every-th go
\* to the parent, once they are written
Note(s) ==
  /\ ended = "no" /\ sending = {} /\ notes < MaxNotes /\ notes' = notes + 1
  /\ times' = [times EXCEPT ![s] = @ + 1]
  /\ sending' = IF ~mute /\ (times'[s] = 1 \/ times'[s] % Every = 0) THEN {s} ELSE {}
  /\ UNCHANGED <<mute, stream, dropped, kept, ended>>

\* _send: or it cannot be written (no memory for it), and none is after it
Sends ==
  /\ ended = "no" /\ sending' = {}
  /\ \E s \in sending :
       \/ stream' = Append(stream, Entry(s, times[s])) /\ UNCHANGED mute
       \/ mute' = TRUE /\ UNCHANGED stream
  /\ UNCHANGED <<times, notes, dropped, kept, ended>>

\* for mutation: entries are added up
TakeAdded(s, n) == kept' = [kept EXCEPT ![s] = @ + n]

\* take: an entry holds the times until then
Take(s, n) == kept' = [kept EXCEPT ![s] = IF n > @ THEN n ELSE @]

\* the events the parent read, while the run went on or after its end
Takes ==
  /\ stream # <<>> /\ stream' = Tail(stream)
  /\ Take(Head(stream).site, Head(stream).times)
  /\ UNCHANGED <<times, notes, sending, mute, dropped, ended>>

\* the run ends and its worker answers, or the worker dies or is killed, which
\* may be in the middle of a note
Answer ==
  /\ ended = "no" /\ sending = {} /\ ended' = "answered"
  /\ UNCHANGED <<times, notes, sending, mute, stream, dropped, kept>>
Kill ==
  /\ ended = "no" /\ ended' = "killed"
  /\ UNCHANGED <<times, notes, sending, mute, stream, dropped, kept>>

\* dispose, for a pool that is closed or evicted: the worker is killed, and the
\* pipe closed under the call that reads it, with all that is on it
Disposes ==
  /\ ended \in {"answered", "killed"} /\ ended' = "closed"
  /\ dropped' = (stream # <<>>) /\ stream' = <<>>
  /\ UNCHANGED <<times, notes, sending, mute, kept>>

\* no answer: nothing more is on the pipe, or it is closed
Receipt ==
  /\ ended \in {"killed", "closed"} /\ stream = <<>> /\ ended' = "made"
  /\ UNCHANGED <<times, notes, sending, mute, stream, dropped, kept>>

-----------------------------------------------------------------------------
RecorderTypeOK ==
  /\ times \in [Sites -> Nat] /\ kept \in [Sites -> Nat] /\ notes \in 0..MaxNotes
  /\ stream \in Seq([site : Sites, times : Nat])
  /\ sending \subseteq Sites /\ mute \in BOOLEAN /\ dropped \in BOOLEAN
  /\ ended \in {"no", "answered", "killed", "closed", "made"}

\* "what is listed happened, and each `times` is at least that": whenever the
\* run is killed or its pool closed, what was kept of a site is no more than
\* happened there.  And where nothing kept the worker from streaming, and no
\* entry was on a pipe that was closed, the receipt leaves out no site but the
\* one whose entry was being written, and none is short by more than the
\* stream's step.
AtLeast ==
  \A s \in Sites :
    /\ kept[s] <= times[s]
    /\ ended = "made" /\ ~mute /\ ~dropped =>
         IF s \in sending THEN times[s] <= kept[s] + Every
         ELSE (times[s] > 0 => kept[s] > 0) /\ times[s] < kept[s] + Every
=============================================================================
