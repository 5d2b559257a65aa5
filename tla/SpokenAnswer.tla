---------------------------- MODULE SpokenAnswer ----------------------------
(***************************************************************************)
(* What the speech of an answer promises, with no task, no queue and no    *)
(* await in it: the segments of its source are spoken one at a time and in *)
(* order, a tolerant speech passes over the ones that failed, and a speech *)
(* that is said to be complete has left out nothing.                       *)
(***************************************************************************)
EXTENDS Integers

VARIABLES
  tolerant,   \* the speech may pass over a segment that has failed
  length,     \* the segments of the source so far
  whole,      \* the source has come to its end, and well
  spoken,     \* the segments the device was to hear
  missed,     \* the segments passed over
  open,       \* the segment whose stream is open at the device, 0 without one
  framed,     \* frames of that stream may have been sent
  verdict     \* "none", "returned", "error" or "cancelled"

answerVars == <<tolerant, length, whole, spoken, missed, open, framed, verdict>>

AnswerInit ==
  /\ tolerant \in BOOLEAN
  /\ length = 0 /\ whole = FALSE
  /\ spoken = {} /\ missed = {}
  /\ open = 0 /\ framed = FALSE
  /\ verdict = "none"

Grow ==
  /\ ~whole
  /\ length' = length + 1
  /\ UNCHANGED <<tolerant, whole, spoken, missed, open, framed, verdict>>

Complete ==
  /\ ~whole /\ whole' = TRUE
  /\ UNCHANGED <<tolerant, length, spoken, missed, open, framed, verdict>>

\* The segment is the turn of the speech: it comes after all that was spoken or missed.
IsNext(s) ==
  /\ s \in 1..length
  /\ \A r \in 1..length : r < s <=> r \in spoken \cup missed

Speak(s) ==
  /\ verdict = "none" /\ open = 0 /\ IsNext(s)
  /\ open' = s /\ spoken' = spoken \cup {s}
  /\ UNCHANGED <<tolerant, length, whole, missed, framed, verdict>>

Miss(s) ==
  /\ verdict = "none" /\ open = 0 /\ IsNext(s)
  /\ tolerant
  /\ missed' = missed \cup {s}
  /\ UNCHANGED <<tolerant, length, whole, spoken, open, framed, verdict>>

Frame ==
  /\ open # 0 /\ ~framed
  /\ framed' = TRUE
  /\ UNCHANGED <<tolerant, length, whole, spoken, missed, open, verdict>>

\* The end is sent, or the connection is gone.
Close ==
  /\ open # 0
  /\ open' = 0 /\ framed' = FALSE
  /\ UNCHANGED <<tolerant, length, whole, spoken, missed, verdict>>

\* No stream with frames is left open. A cancellation replaces any other verdict.
Conclude(v) ==
  /\ verdict = "none" \/ v = "cancelled"
  /\ ~framed
  /\ v = "returned" => whole /\ length > 0 /\ open = 0 /\ missed = {} /\ spoken = 1..length
  /\ verdict' = v
  /\ UNCHANGED <<tolerant, length, whole, spoken, missed, open, framed>>

AnswerNext ==
  \/ Grow \/ Complete \/ Frame \/ Close
  \/ \E s \in 1..length : Speak(s) \/ Miss(s)
  \/ \E v \in {"returned", "error", "cancelled"} : Conclude(v)

AnswerSpec == AnswerInit /\ [][AnswerNext]_answerVars
=============================================================================
