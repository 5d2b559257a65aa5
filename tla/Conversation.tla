---------------------------- MODULE Conversation ----------------------------
(***************************************************************************)
(* What the device promises to the person before it, with no wire, no      *)
(* queue and no decoder thread in it: it speaks or listens, never both; a  *)
(* stream is spoken once and never after a newer one; and when it stops    *)
(* speaking nothing of the stream is left to sound. Only where the         *)
(* connection is lost may the rest still sound, until it speaks again, and *)
(* a stream that nobody ends may be talked over by later ones.             *)
(***************************************************************************)
EXTENDS Integers

VARIABLES
  mode,     \* "connecting", "idle", "listening" or "speaking"
  voice,    \* the stream being spoken, 0 without one
  ear,      \* the input being recorded, 0 without one
  inputs,   \* inputs so far
  past,     \* the streams that will never be spoken any more
  air,      \* the streams of which something is still to sound
  adrift    \* the streams that nobody will end

talkVars == <<mode, voice, ear, inputs, past, air, adrift>>

TalkInit ==
  /\ mode = "connecting" /\ voice = 0 /\ ear = 0 /\ inputs = 0
  /\ past = {} /\ air = {} /\ adrift = {}

Arrive ==
  /\ mode = "connecting" /\ mode' = "idle"
  /\ UNCHANGED <<voice, ear, inputs, air>>

Lose ==
  /\ mode # "connecting" /\ mode' = "connecting"
  /\ voice' = 0 /\ ear' = 0
  /\ UNCHANGED <<inputs, air>>

\* A stream newer than all before it, after a silence of its own.
Speak(s) ==
  /\ mode \in {"idle", "listening"} /\ mode' = "speaking"
  /\ \A p \in past : p < s
  /\ s \in past'
  /\ voice' = s /\ ear' = 0 /\ air' = {}
  /\ UNCHANGED inputs

Hush ==
  /\ mode = "speaking" /\ mode' = "idle"
  /\ voice' = 0 /\ air' = {}
  /\ UNCHANGED <<ear, inputs>>

NewInput == inputs' = inputs + 1 /\ ear' = inputs + 1

\* The input may fail to begin: the device is deaf then, and about to lose its connection.
BargeIn ==
  /\ mode = "speaking" /\ mode' = "listening"
  /\ voice' = 0 /\ air' = {}
  /\ NewInput \/ UNCHANGED <<ear, inputs>>

Listen ==
  /\ mode = "idle" /\ mode' = "listening"
  /\ NewInput
  /\ UNCHANGED <<voice, air>>

EndListening ==
  /\ mode = "listening" /\ ear # 0 /\ mode' = "idle"
  /\ ear' = 0
  /\ UNCHANGED <<voice, inputs, air>>

\* What is to sound is played or dropped, and grows only by what is being spoken.
Sound ==
  /\ \A s \in air' \ air : mode = "speaking" /\ (s = voice \/ (voice \in adrift /\ s > voice))
  /\ UNCHANGED <<mode, voice, ear, inputs>>

TalkNext ==
  /\ past \subseteq past' /\ adrift \subseteq adrift'
  /\ \/ Arrive \/ Lose \/ Hush \/ BargeIn \/ Listen \/ EndListening \/ Sound
     \/ \E s \in past' : Speak(s)

TalkSpec == TalkInit /\ [][TalkNext]_talkVars
=============================================================================
