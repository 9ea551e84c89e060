---------------------------- MODULE VoiceStream -----------------------------
(***************************************************************************)
(* One spoken question (frontend/api/main.py voice_stream): the request's  *)
(* generator, the voice-stream thread that drives the speech synthesis     *)
(* (voice/provider.py) and the thread that feeds it, which pull the tokens *)
(* of the conversational agent (agents/conversational.py) out of the LLM   *)
(* router (core/router.py), and the callbacks of the synthesis service.    *)
(* They share the request's bus, the synthesis' audio queue and the done   *)
(* event.                                                                  *)
(***************************************************************************)
EXTENDS Naturals, Sequences

CONSTANTS
  STT_ATTEMPTS,       \* transcriptions tried
  TTS_DIAL_ATTEMPTS,  \* websocket dials tried
  MaxTokens,          \* bound on the tokens of an answer
  MaxFrames           \* bound on the audio frames of an answer

ASSUME VoiceAssumption ==
  /\ STT_ATTEMPTS \in Nat \ {0} /\ TTS_DIAL_ATTEMPTS \in Nat \ {0}
  /\ MaxTokens \in Nat /\ MaxFrames \in Nat

VARIABLES
  provider,  \* the configured voice provider
  page,      \* the request: "stt", "open", then how it ended
  stt,       \* failed transcriptions
  shown,     \* the tokens the page has been sent
  told,      \* whether the page has been sent an error
  bus,       \* the events from the threads to the request
  llm,       \* the answer stream: its model, tokens so far and end
  drive,     \* the voice-stream thread
  feeder,    \* the thread that feeds the synthesis
  dials,     \* failed dials
  stale,     \* sessions of failed dials not yet closed by the service
  session,   \* the synthesis session: "none", "open" or "closed"
  finished,  \* whether all the text has been sent to the session
  frames,    \* frames the service has synthesised
  audio_q,   \* frames and the end mark, from the callbacks to the driver
  done,      \* whether the end mark has been put
  cut        \* history: the session was closed before it had all the text,
             \* a dial's stale session ended the next one, or feeding failed

request == <<provider, page, stt, shown, told>>
service == <<dials, stale, session, finished, frames>>
audio == <<audio_q, done>>
vars == <<request, bus, llm, drive, feeder, service, audio, cut>>

(* Models: the primary, the fallback, and the apology for both failing. *)
Models == 1 .. 3
Apology == 3
Token == [model : Models, nr : 1 .. (MaxTokens + 1)]
TokenEvents == [kind : {"token"}, token : Token]
AudioEvent == [kind |-> "audio"]
ErrorEvent == [kind |-> "error"]
EndEvent == [kind |-> "end"]
Events == TokenEvents \cup {AudioEvent, ErrorEvent, EndEvent}

(* The first n tokens of a model's answer. *)
Answer(model, n) == [i \in 1 .. n |-> [model |-> model, nr |-> i]]

Init ==
  /\ provider \in {"mock", "aliyun"}
  /\ page = "stt" /\ stt = 0 /\ shown = <<>> /\ told = FALSE /\ bus = <<>>
  /\ llm = [state |-> "prepare", model |-> 1, n |-> 0]
  /\ drive = "none" /\ feeder = "none"
  /\ dials = 0 /\ stale = 0 /\ session = "none" /\ finished = FALSE /\ frames = 0
  /\ audio_q = <<>> /\ done = FALSE /\ cut = FALSE

-----------------------------------------------------------------------------
(* Transcription *)

(* A transport failure of the real recogniser, retried a few times. *)
TranscribeFails ==
  /\ page = "stt" /\ provider = "aliyun"
  /\ stt' = stt + 1
  /\ IF stt + 1 < STT_ATTEMPTS THEN UNCHANGED <<page, told>>
     ELSE page' = "refused" /\ told' = TRUE
  /\ UNCHANGED <<provider, shown, bus, llm, drive, feeder, service, audio, cut>>

(* Silence is an answer: nothing to ask. *)
HearsNothing ==
  /\ page = "stt"
  /\ page' = "refused" /\ told' = TRUE
  /\ UNCHANGED <<provider, stt, shown, bus, llm, drive, feeder, service, audio, cut>>

Transcribes ==
  /\ page = "stt"
  /\ page' = "open" /\ drive' = "pull"
  /\ UNCHANGED <<provider, stt, shown, told, bus, llm, feeder, service, audio, cut>>

-----------------------------------------------------------------------------
(* The token stream, pulled by the driver or by the feeder *)

Pulls(w) == IF w = "drive" THEN drive = "pull" ELSE feeder = "pull"

(* _tee() mirrors a token to the page before the puller gets it: the mock  *)
(* driver drains the stream, the real one dials after the first token, the *)
(* feeder appends it to the session.                                       *)
Receives(w, token) ==
  /\ bus' = Append(bus, [kind |-> "token", token |-> token])
  /\ IF w = "feeder" THEN feeder' = "append" /\ UNCHANGED drive
     ELSE /\ drive' = IF provider = "mock" THEN "pull" ELSE "dial"
          /\ UNCHANGED feeder

(* _prepare(), on the first pull: the dispatch call falls back to a        *)
(* default plan; a source of the context may raise (LlmRaises).            *)
Prepares(w) ==
  /\ Pulls(w) /\ llm.state = "prepare"
  /\ llm' = [llm EXCEPT !.state = "open"]
  /\ UNCHANGED <<request, bus, drive, feeder, service, audio, cut>>

(* Bound: MaxTokens. *)
TokenArrives(w) ==
  /\ Pulls(w) /\ llm.state = "open" /\ llm.n < MaxTokens
  /\ llm' = [llm EXCEPT !.n = @ + 1]
  /\ Receives(w, [model |-> llm.model, nr |-> llm.n + 1])
  /\ UNCHANGED <<request, service, audio, cut>>

(* Mutant: the fallback model is tried whatever was emitted. *)
FallsBackAnyway(w) ==
  /\ Pulls(w) /\ llm.state = "open" /\ llm.model = 1
  /\ llm' = [llm EXCEPT !.model = 2, !.n = 0]
  /\ UNCHANGED <<request, bus, drive, feeder, service, audio, cut>>

(* A transient failure before the first token. *)
FallsBack(w) ==
  /\ Pulls(w) /\ llm.state = "open" /\ llm.model = 1 /\ llm.n = 0
  /\ llm' = [llm EXCEPT !.model = 2]
  /\ UNCHANGED <<request, bus, drive, feeder, service, audio, cut>>

(* RouterExhausted: respond_stream yields its apology. *)
Apologises(w) ==
  /\ Pulls(w) /\ llm.state = "open" /\ llm.model = 2 /\ llm.n = 0
  /\ llm' = [state |-> "apology", model |-> Apology, n |-> 1]
  /\ Receives(w, [model |-> Apology, nr |-> 1])
  /\ UNCHANGED <<request, service, audio, cut>>

(* _signal_done(): the end mark is put once, or again by a caller that     *)
(* looked at the event before it was set.                                  *)
SignalDone ==
  /\ done' = TRUE
  /\ \/ audio_q' = Append(audio_q, "DONE")
     \/ done /\ UNCHANGED audio_q

(* The stream ends; without a token there is no session to open. *)
LlmEnds(w) ==
  /\ Pulls(w) /\ llm.state \in {"open", "apology"}
  /\ llm' = [llm EXCEPT !.state = "ended"]
  /\ IF w = "feeder" THEN feeder' = "finish" /\ UNCHANGED drive
     ELSE drive' = "end" /\ UNCHANGED feeder
  /\ UNCHANGED <<request, bus, service, audio, cut>>

FeedFails ==
  /\ feeder' = "ended" /\ cut' = TRUE
  /\ SignalDone

(* An exception in the driver becomes an event; one in the feeder does not. *)
LlmRaises(w) ==
  /\ Pulls(w) /\ llm.state \in {"prepare", "open"}
  /\ llm' = [llm EXCEPT !.state = "failed"]
  /\ IF w = "feeder" THEN FeedFails /\ UNCHANGED <<drive, bus>>
     ELSE /\ drive' = "end" /\ bus' = Append(bus, ErrorEvent)
          /\ UNCHANGED <<feeder, audio, cut>>
  /\ UNCHANGED <<request, service>>

-----------------------------------------------------------------------------
(* The synthesis: the driver *)

(* Mutant: one attempt too many. *)
DialFailsOnceMore ==
  /\ drive = "dial"
  /\ dials' = dials + 1 /\ stale' \in {stale, stale + 1}
  /\ drive' = IF dials + 1 <= TTS_DIAL_ATTEMPTS THEN "dial" ELSE "end"
  /\ UNCHANGED <<request, bus, llm, feeder, session, finished, frames, audio, cut>>

(* A failed dial may leave a session the service closes later. *)
DialFails ==
  /\ drive = "dial"
  /\ dials' = dials + 1 /\ stale' \in {stale, stale + 1}
  /\ drive' = IF dials + 1 < TTS_DIAL_ATTEMPTS THEN "dial" ELSE "end"
  /\ UNCHANGED <<request, bus, llm, feeder, session, finished, frames, audio, cut>>

Dials ==
  /\ drive = "dial"
  /\ session' = "open" /\ drive' = "play" /\ feeder' = "append"
  /\ UNCHANGED <<request, bus, llm, dials, stale, finished, frames, audio, cut>>

PlaysFrame ==
  /\ drive = "play" /\ audio_q # <<>> /\ Head(audio_q) = "frame"
  /\ audio_q' = Tail(audio_q)
  /\ bus' = Append(bus, AudioEvent)
  /\ UNCHANGED <<request, llm, drive, feeder, service, done, cut>>

EndsPlay ==
  /\ drive = "play" /\ audio_q # <<>> /\ Head(audio_q) = "DONE"
  /\ audio_q' = Tail(audio_q)
  /\ drive' = "close"
  /\ UNCHANGED <<request, bus, llm, feeder, service, done, cut>>

(* Mutant: a second of silence ends the play, fed or not. *)
GivesUpAnyway ==
  /\ drive = "play" /\ audio_q = <<>>
  /\ drive' = "close"
  /\ UNCHANGED <<request, bus, llm, feeder, service, audio, cut>>

(* Mutant: only the end mark ends the play. *)
NeverGivesUp ==
  /\ drive = "play" /\ audio_q = <<>> /\ done
  /\ drive' = "close"
  /\ UNCHANGED <<request, bus, llm, feeder, service, audio, cut>>

(* Silence after the last text was sent: the safety net. *)
GivesUp ==
  /\ drive = "play" /\ audio_q = <<>> /\ (done \/ feeder = "ended")
  /\ drive' = "close"
  /\ UNCHANGED <<request, bus, llm, feeder, service, audio, cut>>

Closes ==
  /\ drive = "close"
  /\ session' = "closed" /\ drive' = "join"
  /\ UNCHANGED <<request, bus, llm, feeder, dials, stale, finished, frames, audio, cut>>

(* join(timeout=5): the feeder has ended, or not in time. *)
Joins ==
  /\ drive = "join"
  /\ drive' = "end"
  /\ UNCHANGED <<request, bus, llm, feeder, service, audio, cut>>

Ends ==
  /\ drive = "end"
  /\ bus' = Append(bus, EndEvent) /\ drive' = "ended"
  /\ UNCHANGED <<request, llm, feeder, service, audio, cut>>

-----------------------------------------------------------------------------
(* The synthesis: the feeder and the service *)

Appends ==
  /\ feeder = "append"
  /\ feeder' = "pull"
  /\ UNCHANGED <<request, bus, llm, drive, service, audio, cut>>

FinishesText ==
  /\ feeder = "finish"
  /\ feeder' = "ended" /\ finished' = TRUE
  /\ UNCHANGED <<request, bus, llm, drive, dials, stale, session, frames, audio, cut>>

(* append_text() or finish() raises, the session gone or not. *)
SendFails ==
  /\ feeder \in {"append", "finish"}
  /\ FeedFails
  /\ UNCHANGED <<request, bus, llm, drive, service>>

(* Bound: MaxFrames. *)
ServiceSpeaks ==
  /\ session = "open" /\ frames < MaxFrames
  /\ frames' = frames + 1
  /\ audio_q' = Append(audio_q, "frame")
  /\ UNCHANGED <<request, bus, llm, drive, feeder, dials, stale, session, finished, done, cut>>

(* A terminal event or a lost connection. *)
ServiceEnds ==
  /\ session = "open"
  /\ session' = "closed" /\ cut' = (cut \/ ~finished)
  /\ SignalDone
  /\ UNCHANGED <<request, bus, llm, drive, feeder, dials, stale, finished, frames>>

(* on_close() of an earlier attempt signals the same end. *)
StaleCloses ==
  /\ stale > 0 /\ stale' = stale - 1
  /\ cut' = (cut \/ ~finished)
  /\ SignalDone
  /\ UNCHANGED <<request, bus, llm, drive, feeder, dials, session, finished, frames>>

-----------------------------------------------------------------------------
(* The request *)

Takes ==
  /\ page = "open" /\ bus # <<>>
  /\ LET event == Head(bus)
     IN  /\ shown' = IF event.kind = "token" THEN Append(shown, event.token) ELSE shown
         /\ told' = (told \/ event.kind = "error")
         /\ page' = IF event.kind = "end" THEN "done" ELSE page
  /\ bus' = Tail(bus)
  /\ UNCHANGED <<provider, stt, llm, drive, feeder, service, audio, cut>>

(* The visitor leaves: the generator is closed, its threads go on. *)
Leaves ==
  /\ page = "open" /\ page' = "left"
  /\ UNCHANGED <<provider, stt, shown, told, bus, llm, drive, feeder, service, audio, cut>>

-----------------------------------------------------------------------------
StreamStep(w) ==
  \/ Prepares(w) \/ TokenArrives(w) \/ FallsBack(w) \/ Apologises(w)
  \/ LlmEnds(w) \/ LlmRaises(w)

DriveStep ==
  \/ StreamStep("drive")
  \/ DialFails \/ Dials \/ PlaysFrame \/ EndsPlay \/ GivesUp
  \/ Closes \/ Joins \/ Ends

FeederStep == StreamStep("feeder") \/ Appends \/ FinishesText \/ SendFails

ServiceStep == ServiceSpeaks \/ ServiceEnds \/ StaleCloses

RequestStep == TranscribeFails \/ HearsNothing \/ Transcribes \/ Takes

Next == DriveStep \/ FeederStep \/ ServiceStep \/ RequestStep \/ Leaves

(* The process's threads run, and every call to the LLM ends (it has a     *)
(* timeout).  The synthesis service may stay silent for ever.              *)
Spec ==
  /\ Init /\ [][Next]_vars
  /\ WF_vars(DriveStep) /\ WF_vars(FeederStep) /\ WF_vars(RequestStep)

-----------------------------------------------------------------------------
(* Properties *)

(***************************************************************************)
(* Types; an end mark comes after the done event, and dials and            *)
(* transcriptions keep to their numbers of attempts.                       *)
(***************************************************************************)
TypeOK ==
  /\ provider \in {"mock", "aliyun"}
  /\ page \in {"stt", "open", "refused", "done", "left"}
  /\ stt \in 0 .. STT_ATTEMPTS /\ shown \in Seq(Token) /\ told \in BOOLEAN
  /\ bus \in Seq(Events)
  /\ llm \in [state : {"prepare", "open", "apology", "ended", "failed"},
              model : Models, n : 0 .. (MaxTokens + 1)]
  /\ drive \in {"none", "pull", "dial", "play", "close", "join", "end", "ended"}
  /\ feeder \in {"none", "pull", "append", "finish", "ended"}
  /\ dials \in 0 .. TTS_DIAL_ATTEMPTS /\ stale \in 0 .. dials
  /\ session \in {"none", "open", "closed"} /\ finished \in BOOLEAN
  /\ frames \in 0 .. MaxFrames
  /\ audio_q \in Seq({"frame", "DONE"}) /\ done \in BOOLEAN /\ cut \in BOOLEAN
  /\ (\E i \in DOMAIN audio_q : audio_q[i] = "DONE") => done

(* Positions of the bus that hold a token. *)
TokenPositions == {i \in DOMAIN bus : bus[i].kind = "token"}
StillToShow == (Len(shown) + 1) .. llm.n

(***************************************************************************)
(* core/router.py:139 "a mid-stream failure can't be retried without       *)
(* double-emitting": whichever threads pull the tokens and whatever fails, *)
(* what the page has been sent is a beginning of the answer of one model,  *)
(* and the tokens on the bus are the rest of what that model has said, all *)
(* of it, in its order, and nothing of another model.                      *)
(***************************************************************************)
OneModelSpeaks ==
  /\ Len(shown) <= llm.n /\ shown = Answer(llm.model, Len(shown))
  /\ \A i \in TokenPositions : /\ bus[i].token.model = llm.model
                               /\ bus[i].token.nr \in StillToShow
  /\ \A i, k \in TokenPositions : i < k => bus[i].token.nr < bus[k].token.nr
  /\ \A nr \in StillToShow : \E i \in TokenPositions : bus[i].token.nr = nr

(***************************************************************************)
(* voice/provider.py:234 says a failed dial leaves "text on screen, no     *)
(* voice".  A finished request has shown the whole answer, or an error, or *)
(* one of three failures lost the rest of the text without a word, though  *)
(* never its first token: dials that all failed, a session that ended      *)
(* before it had the text, a failure while feeding.  Nothing else - no     *)
(* fallback of the model, no silence, no order of the threads - loses any. *)
(***************************************************************************)
AnswerAccountedFor ==
  page = "done" =>
    \/ llm.state = "ended" /\ shown = Answer(llm.model, llm.n)
    \/ told
    \/ shown # <<>> /\ (cut \/ dials = TTS_DIAL_ATTEMPTS)

(***************************************************************************)
(* voice/provider.py:48 "safety net": every opened request is finished or  *)
(* left by its visitor, and its threads end, even when the synthesis       *)
(* service never sends anything.                                           *)
(***************************************************************************)
RequestEnds ==
  /\ page = "open" ~> page \in {"done", "left"}
  /\ drive = "pull" ~> drive = "ended"
  /\ feeder = "append" ~> feeder = "ended"
=============================================================================
