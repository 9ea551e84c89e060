------------------------- MODULE VoiceStreamProofs --------------------------
(***************************************************************************)
(* Proofs about VoiceStream, for any number of attempts, tokens and        *)
(* frames: the page gets one model's answer in order, and what it misses   *)
(* of it is accounted for.                                                 *)
(***************************************************************************)
EXTENDS VoiceStream, SequenceTheorems, TLAPS

-----------------------------------------------------------------------------
(* Types *)

LlmState == [state : {"prepare", "open", "apology", "ended", "failed"},
             model : Models, n : 0 .. (MaxTokens + 1)]

RequestTyped ==
  /\ provider \in {"mock", "aliyun"}
  /\ page \in {"stt", "open", "refused", "done", "left"}
  /\ stt \in 0 .. STT_ATTEMPTS /\ shown \in Seq(Token) /\ told \in BOOLEAN
  /\ page = "stt" => stt < STT_ATTEMPTS

ServiceTyped ==
  /\ dials \in 0 .. TTS_DIAL_ATTEMPTS /\ stale \in 0 .. dials
  /\ session \in {"none", "open", "closed"} /\ finished \in BOOLEAN
  /\ frames \in 0 .. MaxFrames

AudioTyped ==
  /\ audio_q \in Seq({"frame", "DONE"}) /\ done \in BOOLEAN /\ cut \in BOOLEAN
  /\ (\E i \in DOMAIN audio_q : audio_q[i] = "DONE") => done

ThreadsTyped ==
  /\ bus \in Seq(Events)
  /\ llm \in LlmState
  /\ drive \in {"none", "pull", "dial", "play", "close", "join", "end", "ended"}
  /\ feeder \in {"none", "pull", "append", "finish", "ended"}
  /\ drive \in {"none", "pull", "dial"} => dials < TTS_DIAL_ATTEMPTS
  /\ page = "stt" => drive = "none"

TypeInv == RequestTyped /\ ServiceTyped /\ AudioTyped /\ ThreadsTyped

LEMMA TypeInvImpliesTypeOK == TypeInv => TypeOK
BY DEF TypeInv, RequestTyped, ServiceTyped, AudioTyped, ThreadsTyped, TypeOK, LlmState

LEMMA TypeInit == Init => TypeInv
<1> SUFFICES ASSUME Init PROVE TypeInv
  OBVIOUS
<1> USE VoiceAssumption DEF Init
<1>1. RequestTyped
  <2>1. told \in BOOLEAN
    OBVIOUS
  <2>1a. shown \in Seq(Token)
    OBVIOUS
  <2>2. stt \in 0 .. STT_ATTEMPTS /\ stt < STT_ATTEMPTS
    OBVIOUS
  <2> QED  BY <2>1, <2>1a, <2>2 DEF RequestTyped
<1>2. ServiceTyped
  <2>1. dials \in 0 .. TTS_DIAL_ATTEMPTS /\ stale \in 0 .. dials /\ frames \in 0 .. MaxFrames
    OBVIOUS
  <2>2. finished \in BOOLEAN
    OBVIOUS
  <2> QED  BY <2>1, <2>2 DEF ServiceTyped
<1>3. AudioTyped
  <2>1. audio_q \in Seq({"frame", "DONE"}) /\ DOMAIN audio_q = {}
    OBVIOUS
  <2>2. done \in BOOLEAN /\ cut \in BOOLEAN
    OBVIOUS
  <2> QED  BY <2>1, <2>2 DEF AudioTyped
<1>4. ThreadsTyped
  BY DEF ThreadsTyped, LlmState, Models
<1> QED  BY <1>1, <1>2, <1>3, <1>4 DEF TypeInv

LEMMA RequestStays == TypeInv /\ UNCHANGED request => RequestTyped'
BY DEF TypeInv, RequestTyped, request

LEMMA ServiceStays == TypeInv /\ UNCHANGED service => ServiceTyped'
BY DEF TypeInv, ServiceTyped, service

LEMMA AudioStays == TypeInv /\ UNCHANGED <<audio, cut>> => AudioTyped'
BY DEF TypeInv, AudioTyped, audio

LEMMA TokensAreEvents ==
  /\ \A token \in Token : [kind |-> "token", token |-> token] \in Events
  /\ AudioEvent \in Events /\ ErrorEvent \in Events /\ EndEvent \in Events
BY DEF Events, TokenEvents

(* The audio queue, as it is consumed and filled. *)
LEMMA AudioTakes ==
  ASSUME TypeInv, audio_q # <<>>, audio_q' = Tail(audio_q), UNCHANGED <<done, cut>>
  PROVE  AudioTyped'
<1>1. audio_q \in Seq({"frame", "DONE"})
  BY DEF TypeInv, AudioTyped
<1>2. /\ Tail(audio_q) \in Seq({"frame", "DONE"}) /\ Len(Tail(audio_q)) = Len(audio_q) - 1
      /\ \A i \in 1 .. Len(Tail(audio_q)) : Tail(audio_q)[i] = audio_q[i + 1]
  BY <1>1, HeadTailProperties
<1>3. \A i \in DOMAIN Tail(audio_q) : i + 1 \in DOMAIN audio_q
  BY <1>1, <1>2
<1>4. (\E i \in DOMAIN Tail(audio_q) : Tail(audio_q)[i] = "DONE") => done
  BY <1>1, <1>2, <1>3 DEF TypeInv, AudioTyped
<1> QED  BY <1>2, <1>4 DEF TypeInv, AudioTyped

LEMMA AudioSignals ==
  ASSUME TypeInv, SignalDone, cut' \in BOOLEAN
  PROVE  AudioTyped'
<1>1. Append(audio_q, "DONE") \in Seq({"frame", "DONE"})
  BY AppendProperties DEF TypeInv, AudioTyped
<1> QED  BY <1>1 DEF SignalDone, TypeInv, AudioTyped

LEMMA AudioSpeaks ==
  ASSUME TypeInv, audio_q' = Append(audio_q, "frame"), UNCHANGED <<done, cut>>
  PROVE  AudioTyped'
<1>1. audio_q \in Seq({"frame", "DONE"})
  BY DEF TypeInv, AudioTyped
<1>2. /\ Append(audio_q, "frame") \in Seq({"frame", "DONE"})
      /\ Len(Append(audio_q, "frame")) = Len(audio_q) + 1
      /\ \A i \in 1 .. Len(audio_q) : Append(audio_q, "frame")[i] = audio_q[i]
      /\ Append(audio_q, "frame")[Len(audio_q) + 1] = "frame"
  BY <1>1, AppendProperties
<1>3. \A i \in DOMAIN Append(audio_q, "frame") : i \in DOMAIN audio_q \/ i = Len(audio_q) + 1
  BY <1>1, <1>2
<1>4. (\E i \in DOMAIN Append(audio_q, "frame") : Append(audio_q, "frame")[i] = "DONE") => done
  BY <1>1, <1>2, <1>3 DEF TypeInv, AudioTyped
<1> QED  BY <1>2, <1>4 DEF TypeInv, AudioTyped

(* A step of the thread that pulls the tokens. *)
LEMMA TypeStream ==
  ASSUME TypeInv, NEW w \in {"drive", "feeder"}, StreamStep(w)
  PROVE  TypeInv'
<1>0. llm \in LlmState /\ bus \in Seq(Events) /\ MaxTokens \in Nat
  BY VoiceAssumption DEF TypeInv, ThreadsTyped
<1>1. \A e \in Events : Append(bus, e) \in Seq(Events)
  BY <1>0, AppendProperties
<1>2. llm' \in LlmState
  BY <1>0 DEF StreamStep, Prepares, TokenArrives, FallsBack, Apologises, LlmEnds, LlmRaises,
              LlmState, Models, Apology
<1>3. bus' \in Seq(Events)
  <2>1. CASE TokenArrives(w)
    <3>1. [model |-> llm.model, nr |-> llm.n + 1] \in Token
      BY <1>0, <2>1 DEF TokenArrives, Token, LlmState
    <3> QED  BY <1>1, <2>1, <3>1, TokensAreEvents DEF TokenArrives, Receives
  <2>2. CASE Apologises(w)
    <3>1. [model |-> Apology, nr |-> 1] \in Token
      BY <1>0 DEF Token, Models, Apology
    <3> QED  BY <1>1, <2>2, <3>1, TokensAreEvents DEF Apologises, Receives
  <2>3. CASE Prepares(w) \/ FallsBack(w) \/ LlmEnds(w) \/ LlmRaises(w)
    BY <1>0, <1>1, <2>3, TokensAreEvents
       DEF Prepares, FallsBack, LlmEnds, LlmRaises
  <2> QED  BY <2>1, <2>2, <2>3 DEF StreamStep
<1>4. ThreadsTyped'
  BY <1>2, <1>3 DEF StreamStep, Prepares, TokenArrives, FallsBack, Apologises, LlmEnds, LlmRaises,
                    Receives, FeedFails, Pulls, request, service, TypeInv, ThreadsTyped
<1>5. UNCHANGED <<request, service>>
  BY DEF StreamStep, Prepares, TokenArrives, FallsBack, Apologises, LlmEnds, LlmRaises
<1>6. AudioTyped'
  <2>1. CASE LlmRaises(w) /\ w = "feeder"
    BY <2>1, AudioSignals DEF LlmRaises, FeedFails
  <2>2. CASE ~(LlmRaises(w) /\ w = "feeder")
    BY <2>2, AudioStays DEF StreamStep, Prepares, TokenArrives, FallsBack, Apologises, LlmEnds,
                            LlmRaises
  <2> QED  BY <2>1, <2>2
<1> QED  BY <1>4, <1>5, <1>6, RequestStays, ServiceStays DEF TypeInv

LEMMA TypeDrive ==
  ASSUME TypeInv,
         \/ DialFails \/ Dials \/ PlaysFrame \/ EndsPlay \/ GivesUp
         \/ Closes \/ Joins \/ Ends
  PROVE  TypeInv'
<1>1. \A e \in Events : Append(bus, e) \in Seq(Events)
  BY AppendProperties DEF TypeInv, ThreadsTyped
<1>2. UNCHANGED request
  BY DEF DialFails, Dials, PlaysFrame, EndsPlay, GivesUp, Closes, Joins, Ends
<1>3. AudioTyped'
  BY AudioStays, AudioTakes DEF DialFails, Dials, PlaysFrame, EndsPlay, GivesUp, Closes, Joins, Ends
<1>4. ServiceTyped'
  BY VoiceAssumption DEF DialFails, Dials, PlaysFrame, EndsPlay, GivesUp, Closes, Joins, Ends,
                         service, TypeInv, ServiceTyped, ThreadsTyped
<1>5. ThreadsTyped'
  BY <1>1, TokensAreEvents, VoiceAssumption
     DEF DialFails, Dials, PlaysFrame, EndsPlay, GivesUp, Closes, Joins, Ends,
         request, service, TypeInv, ServiceTyped, ThreadsTyped
<1> QED  BY <1>2, <1>3, <1>4, <1>5, RequestStays DEF TypeInv

LEMMA TypeFeeder ==
  ASSUME TypeInv, Appends \/ FinishesText \/ SendFails \/ ServiceStep
  PROVE  TypeInv'
<1>1. UNCHANGED request
  BY DEF Appends, FinishesText, SendFails, ServiceStep, ServiceSpeaks, ServiceEnds, StaleCloses
<1>2. AudioTyped'
  <2>1. CASE SendFails \/ ServiceEnds \/ StaleCloses
    <3>1. SignalDone
      BY <2>1 DEF SendFails, FeedFails, ServiceEnds, StaleCloses
    <3>2. cut' \in BOOLEAN
      BY <2>1 DEF SendFails, FeedFails, ServiceEnds, StaleCloses, TypeInv, AudioTyped, ServiceTyped
    <3> QED  BY <3>1, <3>2, AudioSignals
  <2>2. CASE Appends \/ FinishesText \/ ServiceSpeaks
    BY <2>2, AudioStays, AudioSpeaks DEF Appends, FinishesText, ServiceSpeaks
  <2> QED  BY <2>1, <2>2 DEF ServiceStep
<1>3. ServiceTyped'
  <2>1. finished' \in BOOLEAN
    BY DEF Appends, FinishesText, SendFails, ServiceStep, ServiceSpeaks, ServiceEnds,
           StaleCloses, service, TypeInv, ServiceTyped
  <2>2. dials' = dials /\ dials \in 0 .. TTS_DIAL_ATTEMPTS /\ stale \in 0 .. dials
          /\ stale' \in {stale, stale - 1} /\ (stale' # stale => stale > 0)
    BY DEF Appends, FinishesText, SendFails, ServiceStep, ServiceSpeaks, ServiceEnds,
           StaleCloses, service, TypeInv, ServiceTyped
  <2>3. stale' \in 0 .. dials'
    BY <2>2, VoiceAssumption
  <2>4. frames' \in 0 .. MaxFrames
    BY VoiceAssumption
       DEF Appends, FinishesText, SendFails, ServiceStep, ServiceSpeaks, ServiceEnds,
           StaleCloses, service, TypeInv, ServiceTyped
  <2>5. session' \in {"none", "open", "closed"}
    BY DEF Appends, FinishesText, SendFails, ServiceStep, ServiceSpeaks, ServiceEnds,
           StaleCloses, service, TypeInv, ServiceTyped
  <2> QED  BY <2>1, <2>2, <2>3, <2>4, <2>5 DEF ServiceTyped
<1>4. ThreadsTyped'
  BY DEF Appends, FinishesText, SendFails, FeedFails, ServiceStep, ServiceSpeaks, ServiceEnds,
         StaleCloses, request, service, TypeInv, ThreadsTyped
<1> QED  BY <1>1, <1>2, <1>3, <1>4, RequestStays DEF TypeInv

LEMMA TypeRequest ==
  ASSUME TypeInv, RequestStep \/ Leaves
  PROVE  TypeInv'
<1>1. CASE Takes
  <2>1. bus \in Seq(Events) /\ bus # <<>> /\ shown \in Seq(Token)
    BY <1>1 DEF Takes, TypeInv, ThreadsTyped, RequestTyped
  <2>2. Head(bus) \in Events /\ Tail(bus) \in Seq(Events)
    BY <2>1, HeadTailProperties
  <2>3. Head(bus).kind = "token" => Head(bus).token \in Token
    BY <2>2 DEF Events, TokenEvents, AudioEvent, ErrorEvent, EndEvent
  <2>4. shown' \in Seq(Token)
    BY <1>1, <2>1, <2>3, AppendProperties DEF Takes
  <2>5. RequestTyped'
    BY <1>1, <2>4 DEF Takes, TypeInv, RequestTyped
  <2>6. ThreadsTyped'
    BY <1>1, <2>2 DEF Takes, service, TypeInv, ThreadsTyped
  <2> QED  BY <1>1, <2>5, <2>6, ServiceStays, AudioStays DEF Takes, TypeInv
<1>2. CASE TranscribeFails \/ HearsNothing \/ Transcribes \/ Leaves
  <2>1. RequestTyped'
    <3>1. told' \in BOOLEAN /\ shown' = shown /\ provider' = provider
      BY <1>2 DEF TranscribeFails, HearsNothing, Transcribes, Leaves, TypeInv, RequestTyped
    <3>2. page' \in {"stt", "open", "refused", "done", "left"}
      BY <1>2 DEF TranscribeFails, HearsNothing, Transcribes, Leaves, TypeInv, RequestTyped
    <3>3. stt' \in 0 .. STT_ATTEMPTS /\ (page' = "stt" => stt' < STT_ATTEMPTS)
      BY <1>2, VoiceAssumption
         DEF TranscribeFails, HearsNothing, Transcribes, Leaves, TypeInv, RequestTyped
    <3> QED  BY <3>1, <3>2, <3>3 DEF TypeInv, RequestTyped
  <2>2. UNCHANGED <<service, audio, cut, bus, llm, feeder>>
    BY <1>2 DEF TranscribeFails, HearsNothing, Transcribes, Leaves
  <2>3. ThreadsTyped'
    <3>1. CASE Transcribes
      BY <2>2, <3>1 DEF Transcribes, service, TypeInv, ThreadsTyped
    <3>2. CASE drive' = drive /\ (page' = "stt" => page = "stt")
      BY <2>2, <3>2 DEF service, TypeInv, ThreadsTyped
    <3> QED  BY <1>2, <3>1, <3>2 DEF TranscribeFails, HearsNothing, Leaves
  <2> QED  BY <2>1, <2>2, <2>3, ServiceStays, AudioStays DEF TypeInv
<1> QED  BY <1>1, <1>2 DEF RequestStep

LEMMA TypeStep == TypeInv /\ [Next]_vars => TypeInv'
<1> SUFFICES ASSUME TypeInv, [Next]_vars PROVE TypeInv'
  OBVIOUS
<1>1. CASE UNCHANGED vars
  BY <1>1 DEF vars, request, service, audio, TypeInv, RequestTyped, ServiceTyped, AudioTyped,
              ThreadsTyped
<1>2. CASE Next
  BY <1>2, TypeStream, TypeDrive, TypeFeeder, TypeRequest DEF Next, DriveStep, FeederStep
<1> QED  BY <1>1, <1>2

LEMMA TypeInvariant == Spec => []TypeInv
<1> QED  BY TypeInit, TypeStep, PTL DEF Spec

(***************************************************************************)
(* Every reachable state has its type; transcription and dialling keep to  *)
(* their numbers of attempts (voice/provider.py).                          *)
(***************************************************************************)
THEOREM TypeCorrect == Spec => []TypeOK
BY TypeInvariant, TypeInvImpliesTypeOK, PTL

-----------------------------------------------------------------------------
(* What a step does to the bus, the page and the answer *)

(* The bus and the shown tokens stay; of the answer at most a model that   *)
(* has said nothing yet is exchanged.                                      *)
Still ==
  /\ UNCHANGED <<bus, shown>>
  /\ llm'.n = llm.n /\ (llm'.model = llm.model \/ llm.n = 0)
  /\ page' = "done" => page = "done"

Emits ==
  /\ llm.state = "open" /\ llm'.n = llm.n + 1 /\ (llm'.model = llm.model \/ llm.n = 0)
  /\ bus' = Append(bus, [kind |-> "token", token |-> [model |-> llm'.model, nr |-> llm'.n]])
  /\ UNCHANGED <<shown, told, page>>

Says(e) ==
  /\ bus' = Append(bus, e)
  /\ llm'.n = llm.n /\ llm'.model = llm.model
  /\ UNCHANGED <<shown, told, page>>

Lasting ==
  /\ (cut => cut') /\ (told => told')
  /\ (dials = TTS_DIAL_ATTEMPTS => dials' = TTS_DIAL_ATTEMPTS)
  /\ (llm.state = "ended" => llm' = llm)
  /\ (page = "done" => page' = "done" /\ shown' = shown)

LEMMA StreamEffect ==
  ASSUME TypeInv, NEW w \in {"drive", "feeder"}, StreamStep(w)
  PROVE  Lasting /\ (Still \/ Emits \/ Says(ErrorEvent))
<1>0. llm \in LlmState
  BY DEF TypeInv, ThreadsTyped
<1>1. Lasting
  <2>1. llm.state # "ended" /\ UNCHANGED <<request, service>>
    BY DEF StreamStep, Prepares, TokenArrives, FallsBack, Apologises, LlmEnds, LlmRaises
  <2>2. cut => cut'
    BY DEF StreamStep, Prepares, TokenArrives, FallsBack, Apologises, LlmEnds, LlmRaises, FeedFails
  <2> QED  BY <2>1, <2>2 DEF Lasting, request, service
<1>2. CASE Prepares(w) \/ FallsBack(w) \/ LlmEnds(w)
  <2>1. llm'.n = llm.n /\ (llm'.model = llm.model \/ llm.n = 0)
    BY <1>0, <1>2 DEF Prepares, FallsBack, LlmEnds, LlmState
  <2> QED  BY <1>1, <1>2, <2>1 DEF Still, Prepares, FallsBack, LlmEnds, request
<1>3. CASE TokenArrives(w)
  <2>1. llm'.n = llm.n + 1 /\ llm'.model = llm.model
    BY <1>0, <1>3 DEF TokenArrives, LlmState
  <2> QED  BY <1>1, <1>3, <2>1 DEF Emits, TokenArrives, Receives, request
<1>4. CASE Apologises(w)
  <2>1. llm'.n = 1 /\ llm.n = 0 /\ llm'.model = Apology
    BY <1>4 DEF Apologises
  <2> QED  BY <1>1, <1>4, <2>1 DEF Emits, Apologises, Receives, request
<1>5. CASE LlmRaises(w)
  <2>1. llm'.n = llm.n /\ llm'.model = llm.model
    BY <1>0, <1>5 DEF LlmRaises, LlmState
  <2> QED  BY <1>1, <1>5, <2>1 DEF Still, Says, LlmRaises, FeedFails, request
<1> QED  BY <1>2, <1>3, <1>4, <1>5 DEF StreamStep

LEMMA OtherEffect ==
  ASSUME TypeInv,
         \/ DialFails \/ Dials \/ EndsPlay \/ GivesUp \/ Closes \/ Joins
         \/ Appends \/ FinishesText \/ SendFails \/ ServiceStep
         \/ TranscribeFails \/ HearsNothing \/ Transcribes \/ Leaves \/ UNCHANGED vars
  PROVE  Lasting /\ Still
<1>1. UNCHANGED <<bus, shown, llm>>
  BY DEF DialFails, Dials, EndsPlay, GivesUp, Closes, Joins, Appends, FinishesText, SendFails,
         ServiceStep, ServiceSpeaks, ServiceEnds, StaleCloses, TranscribeFails, HearsNothing,
         Transcribes, Leaves, vars, request
<1>2. (told => told') /\ (page' = "done" <=> page = "done")
  BY DEF DialFails, Dials, EndsPlay, GivesUp, Closes, Joins, Appends, FinishesText, SendFails,
         ServiceStep, ServiceSpeaks, ServiceEnds, StaleCloses, TranscribeFails, HearsNothing,
         Transcribes, Leaves, vars, request
<1>3. cut => cut'
  BY DEF DialFails, Dials, EndsPlay, GivesUp, Closes, Joins, Appends, FinishesText, SendFails,
         FeedFails, ServiceStep, ServiceSpeaks, ServiceEnds, StaleCloses, TranscribeFails,
         HearsNothing, Transcribes, Leaves, vars
<1>4. dials = TTS_DIAL_ATTEMPTS => dials' = TTS_DIAL_ATTEMPTS
  <2>1. CASE DialFails
    BY <2>1, VoiceAssumption DEF DialFails, TypeInv, ServiceTyped, ThreadsTyped
  <2>2. CASE dials' = dials
    BY <2>2
  <2> QED  BY <2>1, <2>2
           DEF Dials, EndsPlay, GivesUp, Closes, Joins, Appends, FinishesText, SendFails,
               ServiceStep, ServiceSpeaks, ServiceEnds, StaleCloses, TranscribeFails,
               HearsNothing, Transcribes, Leaves, vars, service
<1> QED  BY <1>1, <1>2, <1>3, <1>4 DEF Lasting, Still

LEMMA StepEffect ==
  ASSUME TypeInv, [Next]_vars
  PROVE  Lasting /\ (Still \/ Emits \/ Says(ErrorEvent) \/ Says(AudioEvent) \/ Ends \/ Takes)
<1>1. CASE PlaysFrame
  BY <1>1 DEF PlaysFrame, Lasting, Says, request, service
<1>2. CASE Ends
  BY <1>2 DEF Ends, Lasting, request, service
<1>3. CASE Takes
  <2>1. cut' = cut /\ llm' = llm /\ page = "open" /\ dials' = dials /\ (told => told')
    BY <1>3 DEF Takes, service
  <2> QED  BY <1>3, <2>1 DEF Lasting
<1>4. CASE StreamStep("drive") \/ StreamStep("feeder")
  BY <1>4, StreamEffect
<1> QED  BY <1>1, <1>2, <1>3, <1>4, OtherEffect DEF Next, DriveStep, FeederStep, RequestStep

(* The positions of the bus after a step. *)
LEMMA BusAppends ==
  ASSUME TypeInv, NEW e \in Events, bus' = Append(bus, e)
  PROVE  /\ Len(bus) \in Nat
         /\ DOMAIN bus = 1 .. Len(bus) /\ DOMAIN bus' = 1 .. (Len(bus) + 1)
         /\ \A i \in 1 .. Len(bus) : bus'[i] = bus[i]
         /\ bus'[Len(bus) + 1] = e
<1>1. bus \in Seq(Events)
  BY DEF TypeInv, ThreadsTyped
<1>2. /\ Len(bus') = Len(bus) + 1 /\ bus' \in Seq(Events)
      /\ \A i \in 1 .. Len(bus) : bus'[i] = bus[i]
      /\ bus'[Len(bus) + 1] = e
  BY <1>1, AppendProperties
<1> QED  BY <1>1, <1>2

LEMMA BusTakes ==
  ASSUME TypeInv, Takes
  PROVE  /\ Len(bus) \in Nat /\ Len(bus) >= 1
         /\ DOMAIN bus = 1 .. Len(bus) /\ DOMAIN bus' = 1 .. (Len(bus) - 1)
         /\ \A i \in 1 .. (Len(bus) - 1) : bus'[i] = bus[i + 1]
         /\ Head(bus) = bus[1] /\ bus[1] \in Events
<1>1. bus \in Seq(Events) /\ bus # <<>> /\ bus' = Tail(bus)
  BY DEF TypeInv, ThreadsTyped, Takes
<1>2. /\ Head(bus) \in Events /\ bus' \in Seq(Events)
      /\ Len(bus') = Len(bus) - 1
      /\ \A i \in 1 .. Len(bus') : bus'[i] = bus[i + 1]
  BY <1>1, HeadTailProperties
<1>3. Len(bus) \in Nat /\ Len(bus) >= 1 /\ Head(bus) = bus[1]
  BY <1>1
<1> QED  BY <1>1, <1>2, <1>3

-----------------------------------------------------------------------------
(* One model speaks *)

LEMMA SpeakNumbers ==
  ASSUME TypeInv
  PROVE  /\ Len(shown) \in Nat /\ llm.n \in Nat
         /\ shown \in Seq(Token) /\ DOMAIN shown = 1 .. Len(shown)
         /\ DOMAIN bus = 1 .. Len(bus) /\ Len(bus) \in Nat
         /\ \A i \in TokenPositions : i \in DOMAIN bus /\ bus[i].token \in Token
                                     /\ bus[i].token.nr \in Nat
<1>1. shown \in Seq(Token) /\ llm \in LlmState /\ bus \in Seq(Events)
  BY DEF TypeInv, RequestTyped, ThreadsTyped
<1>2. llm.n \in Nat
  BY <1>1, VoiceAssumption DEF LlmState
<1>3. ASSUME NEW i \in TokenPositions
      PROVE  i \in DOMAIN bus /\ bus[i].token \in Token /\ bus[i].token.nr \in Nat
  <2>1. i \in DOMAIN bus /\ bus[i] \in Events /\ bus[i].kind = "token"
    BY <1>1 DEF TokenPositions
  <2>2. bus[i].token \in Token
    BY <2>1 DEF Events, TokenEvents, AudioEvent, ErrorEvent, EndEvent
  <2>3. bus[i].token.nr \in Nat
    BY <2>2, VoiceAssumption DEF Token
  <2> QED  BY <2>1, <2>2, <2>3
<1> QED  BY <1>1, <1>2, <1>3

LEMMA AnswerGrows ==
  ASSUME NEW s \in Seq(Token), NEW t \in Token, NEW m, s = Answer(m, Len(s)),
         t = [model |-> m, nr |-> Len(s) + 1]
  PROVE  /\ Append(s, t) \in Seq(Token) /\ Len(Append(s, t)) = Len(s) + 1
         /\ Append(s, t) = Answer(m, Len(s) + 1)
<1> DEFINE a == Append(s, t)
<1>1. /\ a \in Seq(Token) /\ Len(a) = Len(s) + 1 /\ Len(s) \in Nat
      /\ \A i \in 1 .. Len(s) : a[i] = s[i]
      /\ a[Len(s) + 1] = t
  BY AppendProperties
<1> HIDE DEF a
<1>2. a = [i \in 1 .. Len(a) |-> a[i]]
  BY <1>1
<1>3. ASSUME NEW i \in 1 .. (Len(s) + 1) PROVE a[i] = [model |-> m, nr |-> i]
  <2>1. CASE i = Len(s) + 1
    BY <1>1, <2>1
  <2>2. CASE i # Len(s) + 1
    <3>1. i \in 1 .. Len(s)
      BY <1>1, <2>2
    <3>2. s[i] = [model |-> m, nr |-> i]
      BY <3>1 DEF Answer
    <3> QED  BY <1>1, <3>1, <3>2
  <2> QED  BY <2>1, <2>2
<1>4. a = Answer(m, Len(s) + 1)
  BY <1>1, <1>2, <1>3 DEF Answer
<1> QED  BY <1>1, <1>4 DEF a

LEMMA SpeakInit == Init => OneModelSpeaks
<1> SUFFICES ASSUME Init PROVE OneModelSpeaks
  OBVIOUS
<1>1. shown = <<>> /\ bus = <<>> /\ llm.n = 0 /\ Len(shown) = 0 /\ DOMAIN bus = {}
  BY DEF Init
<1>2. TokenPositions = {} /\ StillToShow = {}
  BY <1>1 DEF TokenPositions, StillToShow
<1>3. shown = Answer(llm.model, 0)
  BY <1>1 DEF Answer
<1> QED  BY <1>1, <1>2, <1>3 DEF OneModelSpeaks

(* A model that has said nothing yet may be exchanged. *)
LEMMA SilentModel ==
  ASSUME TypeInv, OneModelSpeaks, llm.n = 0
  PROVE  Len(shown) = 0 /\ TokenPositions = {} /\ \A m : shown = Answer(m, 0)
<1>1. Len(shown) = 0 /\ StillToShow = {}
  BY SpeakNumbers DEF OneModelSpeaks, StillToShow
<1>2. shown = <<>>
  BY <1>1, SpeakNumbers
<1> QED  BY <1>1, <1>2 DEF OneModelSpeaks, Answer

LEMMA SpeakStill ==
  ASSUME TypeInv, OneModelSpeaks, Still
  PROVE  OneModelSpeaks'
<1>1. TokenPositions' = TokenPositions /\ StillToShow' = StillToShow
  BY DEF Still, TokenPositions, StillToShow
<1>2. CASE llm'.model = llm.model
  BY <1>1, <1>2 DEF Still, OneModelSpeaks, Answer
<1>3. CASE llm.n = 0
  <2>1. shown = Answer(llm'.model, 0)
    BY <1>3, SilentModel
  <2> QED  BY <1>1, <1>3, <2>1, SilentModel DEF Still, OneModelSpeaks, Answer
<1> QED  BY <1>2, <1>3 DEF Still

LEMMA SpeakSays ==
  ASSUME TypeInv, OneModelSpeaks, NEW e \in {ErrorEvent, AudioEvent, EndEvent}, Says(e)
  PROVE  OneModelSpeaks'
<1>0. e \in Events /\ e.kind # "token"
  BY TokensAreEvents DEF AudioEvent, ErrorEvent, EndEvent
<1>1. /\ DOMAIN bus = 1 .. Len(bus) /\ DOMAIN bus' = 1 .. (Len(bus) + 1) /\ Len(bus) \in Nat
      /\ \A i \in 1 .. Len(bus) : bus'[i] = bus[i]
      /\ bus'[Len(bus) + 1] = e
  BY <1>0, BusAppends DEF Says
<1>2. StillToShow' = StillToShow
  BY DEF Says, StillToShow
<1>3. \A i : i \in TokenPositions' <=> i \in TokenPositions
  BY <1>0, <1>1 DEF TokenPositions
<1>4. \A i \in TokenPositions : bus'[i] = bus[i]
  BY <1>1 DEF TokenPositions
<1>5. Len(shown)' <= llm'.n /\ shown' = Answer(llm'.model, Len(shown'))
  BY DEF Says, OneModelSpeaks
<1>6. \A i \in TokenPositions' :
        bus'[i].token.model = llm'.model /\ bus'[i].token.nr \in StillToShow'
  BY <1>2, <1>3, <1>4 DEF Says, OneModelSpeaks
<1>7. \A i, k \in TokenPositions' : i < k => bus'[i].token.nr < bus'[k].token.nr
  BY <1>3, <1>4 DEF OneModelSpeaks
<1>8. \A nr \in StillToShow' : \E i \in TokenPositions' : bus'[i].token.nr = nr
  BY <1>2, <1>3, <1>4 DEF OneModelSpeaks
<1> QED  BY <1>5, <1>6, <1>7, <1>8 DEF OneModelSpeaks

LEMMA SpeakEmits ==
  ASSUME TypeInv, TypeInv', OneModelSpeaks, Emits
  PROVE  OneModelSpeaks'
<1> DEFINE token == [model |-> llm'.model, nr |-> llm'.n]
           e == [kind |-> "token", token |-> token]
           last == Len(bus) + 1
<1>0. llm'.n = llm.n + 1 /\ shown' = shown /\ llm.n \in Nat /\ Len(shown) \in Nat
        /\ Len(bus) \in Nat /\ Len(shown) <= llm.n
  BY SpeakNumbers DEF Emits, OneModelSpeaks
<1>1. token \in Token
  <2>1. llm' \in LlmState /\ MaxTokens \in Nat
    BY VoiceAssumption DEF TypeInv, ThreadsTyped
  <2> QED  BY <1>0, <2>1 DEF LlmState, Token
<1>2. e \in Events /\ bus' = Append(bus, e)
  BY <1>1, TokensAreEvents DEF Emits
<1>3. e.kind = "token" /\ e.token = token /\ token.nr = llm.n + 1 /\ token.model = llm'.model
  BY <1>0
<1> HIDE DEF token, e
<1>4. /\ DOMAIN bus = 1 .. Len(bus) /\ DOMAIN bus' = 1 .. last
      /\ \A i \in 1 .. Len(bus) : bus'[i] = bus[i]
      /\ bus'[last] = e
  BY <1>2, BusAppends
<1> HIDE DEF last
<1>5. last = Len(bus) + 1
  BY DEF last
<1>6. \A i : i \in TokenPositions' <=> i \in TokenPositions \/ i = last
  BY <1>0, <1>3, <1>4, <1>5 DEF TokenPositions
<1>7. \A i \in TokenPositions : bus'[i] = bus[i] /\ i < last /\ bus[i].token.nr \in Nat
  BY <1>0, <1>4, <1>5, SpeakNumbers
<1>8. \A nr : nr \in StillToShow' <=> nr \in StillToShow \/ nr = llm.n + 1
  BY <1>0 DEF StillToShow
<1>9. shown' = Answer(llm'.model, Len(shown))
  <2>1. CASE llm'.model = llm.model
    BY <1>0, <2>1 DEF OneModelSpeaks
  <2>2. CASE llm.n = 0
    BY <1>0, <2>2, SilentModel
  <2> QED  BY <2>1, <2>2 DEF Emits
<1>10. ASSUME NEW i \in TokenPositions'
       PROVE  bus'[i].token.model = llm'.model /\ bus'[i].token.nr \in StillToShow'
  <2>1. CASE i = last
    BY <1>3, <1>4, <1>8, <2>1
  <2>2. CASE i \in TokenPositions
    <3>1. llm.n # 0
      BY <2>2, SilentModel
    <3>2. llm'.model = llm.model
      BY <3>1 DEF Emits
    <3> QED  BY <1>7, <1>8, <2>2, <3>2 DEF OneModelSpeaks
  <2> QED  BY <1>6, <2>1, <2>2
<1>11. ASSUME NEW i \in TokenPositions', NEW k \in TokenPositions', i < k
       PROVE  bus'[i].token.nr < bus'[k].token.nr
  <2>1. CASE i \in TokenPositions /\ k \in TokenPositions
    BY <1>7, <1>11, <2>1 DEF OneModelSpeaks
  <2>2. CASE i \in TokenPositions /\ k = last
    <3>1. bus'[i].token.nr \in StillToShow
      BY <1>7, <2>2 DEF OneModelSpeaks
    <3> QED  BY <1>0, <1>3, <1>4, <2>2, <3>1 DEF StillToShow
  <2>3. CASE i = last
    <3>1. k \in 1 .. last /\ k <= last
      BY <1>0, <1>4, <1>5 DEF TokenPositions
    <3> QED  BY <1>0, <1>5, <1>11, <2>3, <3>1
  <2> QED  BY <1>6, <2>1, <2>2, <2>3
<1>12. ASSUME NEW nr \in StillToShow' PROVE \E i \in TokenPositions' : bus'[i].token.nr = nr
  <2>1. CASE nr = llm.n + 1
    BY <1>3, <1>4, <1>6, <2>1
  <2>2. CASE nr \in StillToShow
    BY <1>6, <1>7, <2>2 DEF OneModelSpeaks
  <2> QED  BY <1>8, <2>1, <2>2
<1> QED  BY <1>0, <1>9, <1>10, <1>11, <1>12 DEF OneModelSpeaks

LEMMA SpeakTakes ==
  ASSUME TypeInv, OneModelSpeaks, Takes
  PROVE  OneModelSpeaks'
<1>0. /\ DOMAIN bus = 1 .. Len(bus) /\ DOMAIN bus' = 1 .. (Len(bus) - 1)
      /\ Len(bus) \in Nat /\ Len(bus) >= 1
      /\ \A i \in 1 .. (Len(bus) - 1) : bus'[i] = bus[i + 1]
      /\ Head(bus) = bus[1]
  BY BusTakes
<1>1. llm' = llm /\ llm.n \in Nat /\ Len(shown) \in Nat /\ shown \in Seq(Token)
        /\ Len(shown) <= llm.n
  BY SpeakNumbers DEF Takes, OneModelSpeaks
<1>2. \A i : i \in TokenPositions' <=> i + 1 \in TokenPositions /\ i \in 1 .. (Len(bus) - 1)
  BY <1>0 DEF TokenPositions
<1>3. \A i \in TokenPositions' : i + 1 \in TokenPositions /\ bus'[i] = bus[i + 1] /\ i \in Nat
  BY <1>0, <1>2
<1>4. \A k \in TokenPositions : k = 1 \/ (k - 1 \in TokenPositions' /\ bus'[k - 1] = bus[k])
  <2>1. ASSUME NEW k \in TokenPositions, k # 1
        PROVE  k - 1 \in TokenPositions' /\ bus'[k - 1] = bus[k]
    <3>1. k \in 1 .. Len(bus)
      BY <1>0 DEF TokenPositions
    <3>2. k - 1 \in 1 .. (Len(bus) - 1) /\ (k - 1) + 1 = k
      BY <1>0, <2>1, <3>1
    <3>3. bus'[k - 1] = bus[k]
      BY <1>0, <3>2
    <3>4. k - 1 \in TokenPositions'
      BY <1>2, <3>2
    <3> QED  BY <3>3, <3>4
  <2> QED  BY <2>1
<1>5. \A i, k \in TokenPositions' : i < k => bus'[i].token.nr < bus'[k].token.nr
  <2>1. ASSUME NEW i \in TokenPositions', NEW k \in TokenPositions', i < k
        PROVE  bus'[i].token.nr < bus'[k].token.nr
    <3>1. i + 1 < k + 1
      BY <1>3, <2>1
    <3> QED  BY <1>3, <3>1 DEF OneModelSpeaks
  <2> QED  BY <2>1
<1>6. CASE bus[1].kind = "token"
  <2> DEFINE t == bus[1].token
  <2>1. 1 \in TokenPositions
    BY <1>0, <1>6 DEF TokenPositions
  <2>2. t \in Token /\ t.nr \in StillToShow /\ t.model = llm.model /\ t.nr \in Nat
    BY <2>1, SpeakNumbers DEF OneModelSpeaks
  <2>3. \A k \in TokenPositions : k # 1 => t.nr < bus[k].token.nr
    <3>1. ASSUME NEW k \in TokenPositions, k # 1 PROVE 1 < k
      <4>1. k \in 1 .. Len(bus)
        BY <1>0 DEF TokenPositions
      <4> QED  BY <1>0, <3>1, <4>1
    <3> QED  BY <2>1, <3>1 DEF OneModelSpeaks
  <2>4. t.nr = Len(shown) + 1
    <3>1. Len(shown) + 1 \in StillToShow
      BY <1>1, <2>2 DEF StillToShow
    <3>2. PICK k \in TokenPositions : bus[k].token.nr = Len(shown) + 1
      BY <3>1 DEF OneModelSpeaks
    <3>3. t.nr >= Len(shown) + 1
      BY <1>1, <2>2 DEF StillToShow
    <3> QED  BY <1>1, <2>2, <2>3, <3>2, <3>3
  <2>5. t = [model |-> llm.model, nr |-> Len(shown) + 1]
    BY <2>2, <2>4 DEF Token
  <2>6. shown' = Append(shown, t)
    BY <1>0, <1>6 DEF Takes
  <2>7. shown = Answer(llm.model, Len(shown))
    BY DEF OneModelSpeaks
  <2> HIDE DEF t
  <2>8. Len(shown') = Len(shown) + 1 /\ shown' = Answer(llm.model, Len(shown) + 1)
    BY <1>1, <2>2, <2>5, <2>6, <2>7, AnswerGrows
  <2>9. \A nr : nr \in StillToShow' <=> nr \in StillToShow /\ nr # Len(shown) + 1
    BY <1>1, <2>8 DEF StillToShow
  <2>10. Len(shown') <= llm'.n
    BY <1>1, <2>2, <2>4, <2>8 DEF StillToShow
  <2>11. ASSUME NEW i \in TokenPositions'
         PROVE  bus'[i].token.model = llm'.model /\ bus'[i].token.nr \in StillToShow'
    <3>1. i + 1 \in TokenPositions /\ bus'[i] = bus[i + 1] /\ i + 1 # 1
      <4>1. i \in 1 .. (Len(bus) - 1)
        BY <1>2
      <4> QED  BY <1>0, <1>3, <4>1
    <3>2. bus[i + 1].token.nr \in StillToShow /\ bus[i + 1].token.model = llm.model
      BY <3>1 DEF OneModelSpeaks
    <3>3. bus[i + 1].token.nr # Len(shown) + 1
      BY <1>1, <2>3, <2>4, <3>1, SpeakNumbers
    <3> QED  BY <1>1, <2>9, <3>1, <3>2, <3>3
  <2>12. ASSUME NEW nr \in StillToShow' PROVE \E i \in TokenPositions' : bus'[i].token.nr = nr
    <3>1. PICK k \in TokenPositions : bus[k].token.nr = nr
      BY <2>9 DEF OneModelSpeaks
    <3>2. k # 1
      BY <2>4, <2>9, <3>1 DEF t
    <3> QED  BY <1>4, <3>1, <3>2
  <2> QED  BY <1>1, <1>5, <2>8, <2>10, <2>11, <2>12 DEF OneModelSpeaks
<1>7. CASE bus[1].kind # "token"
  <2>1. shown' = shown
    BY <1>0, <1>7 DEF Takes
  <2>2. StillToShow' = StillToShow
    BY <1>1, <2>1 DEF StillToShow
  <2>3. 1 \notin TokenPositions
    BY <1>7 DEF TokenPositions
  <2>4. Len(shown)' <= llm'.n /\ shown' = Answer(llm'.model, Len(shown'))
    BY <1>1, <2>1 DEF OneModelSpeaks
  <2>5. \A i \in TokenPositions' :
          bus'[i].token.model = llm'.model /\ bus'[i].token.nr \in StillToShow'
    BY <1>1, <1>3, <2>2 DEF OneModelSpeaks
  <2>6. \A nr \in StillToShow' : \E i \in TokenPositions' : bus'[i].token.nr = nr
    BY <1>4, <2>2, <2>3 DEF OneModelSpeaks
  <2> QED  BY <1>5, <2>4, <2>5, <2>6 DEF OneModelSpeaks
<1> QED  BY <1>6, <1>7

LEMMA SpeakStep == TypeInv /\ OneModelSpeaks /\ [Next]_vars => OneModelSpeaks'
<1> SUFFICES ASSUME TypeInv, OneModelSpeaks, [Next]_vars PROVE OneModelSpeaks'
  OBVIOUS
<1>1. TypeInv'
  BY TypeStep
<1>2. Still \/ Emits \/ Says(ErrorEvent) \/ Says(AudioEvent) \/ Ends \/ Takes
  BY StepEffect
<1>3. Ends => Says(EndEvent)
  BY DEF Ends, Says, request
<1> QED  BY <1>1, <1>2, <1>3, SpeakStill, SpeakSays, SpeakEmits, SpeakTakes

(***************************************************************************)
(* core/router.py RoutedLLM.stream, frontend/api/main.py voice_stream:     *)
(* whichever threads pull the tokens and whatever fails, what the page has *)
(* been sent and what is on the bus is one model's answer, in order and    *)
(* without a gap.                                                          *)
(***************************************************************************)
THEOREM OneVoice == Spec => []OneModelSpeaks
<1>1. TypeInv /\ OneModelSpeaks /\ [Next]_vars => (TypeInv /\ OneModelSpeaks)'
  BY TypeStep, SpeakStep
<1> QED  BY <1>1, TypeInit, SpeakInit, PTL DEF Spec

-----------------------------------------------------------------------------
(* The feeder and the session *)

(* The feeder starts with the session, after the first token; whoever ends *)
(* the play has had all the text sent, or the history says it was cut.     *)
FedInv ==
  /\ drive \in {"none", "pull", "dial"} => feeder = "none"
  /\ drive \in {"play", "close", "join"} => feeder # "none"
  /\ session # "none" => feeder # "none"
  /\ feeder # "none" \/ drive = "dial" \/ dials > 0 \/ cut => llm.n >= 1
  /\ finished \/ feeder = "finish" => llm.state = "ended"
  /\ done \/ feeder = "ended" \/ drive \in {"close", "join"} => finished \/ cut

LEMMA FedInit == Init => FedInv
BY DEF Init, FedInv

LEMMA FedStream ==
  ASSUME TypeInv, FedInv, NEW w \in {"drive", "feeder"}, StreamStep(w)
  PROVE  FedInv'
<1>0. llm \in LlmState /\ llm.n \in Nat
  BY VoiceAssumption DEF TypeInv, ThreadsTyped, LlmState
<1>1. (llm'.n = llm.n \/ llm'.n >= 1) /\ UNCHANGED service
  BY <1>0 DEF StreamStep, Prepares, TokenArrives, FallsBack, Apologises, LlmEnds, LlmRaises, LlmState
<1>2. Pulls(w) /\ llm.state # "ended"
  BY DEF StreamStep, Prepares, TokenArrives, FallsBack, Apologises, LlmEnds, LlmRaises
<1>3. /\ dials' = dials /\ session' = session /\ finished' = finished /\ ~finished
      /\ feeder # "finish"
  BY <1>1, <1>2 DEF service, FedInv
<1>4. CASE Prepares(w) \/ FallsBack(w)
  BY <1>0, <1>1, <1>2, <1>3, <1>4 DEF Prepares, FallsBack, FedInv, audio
<1>5. CASE TokenArrives(w) \/ Apologises(w)
  <2>1. llm'.n >= 1 /\ UNCHANGED <<audio, cut>>
    BY <1>0, <1>5 DEF TokenArrives, Apologises, LlmState
  <2>2. Receives(w, [model |-> llm.model, nr |-> llm.n + 1]) \/ Receives(w, [model |-> Apology, nr |-> 1])
    BY <1>5 DEF TokenArrives, Apologises
  <2>3. \/ w = "feeder" /\ feeder' = "append" /\ drive' = drive
        \/ w = "drive" /\ drive' \in {"pull", "dial"} /\ feeder' = feeder
    BY <2>2 DEF Receives
  <2>4. CASE w = "feeder"
    BY <1>2, <1>3, <2>1, <2>3, <2>4 DEF FedInv, Pulls, audio
  <2>5. CASE w = "drive"
    BY <1>2, <1>3, <2>1, <2>3, <2>5 DEF FedInv, Pulls, audio
  <2> QED  BY <2>4, <2>5
<1>6. CASE LlmEnds(w)
  <2>1. llm'.state = "ended" /\ llm'.n = llm.n /\ UNCHANGED <<audio, cut>>
    BY <1>0, <1>6 DEF LlmEnds, LlmState
  <2>2. \/ w = "feeder" /\ feeder' = "finish" /\ drive' = drive
        \/ w = "drive" /\ drive' = "end" /\ feeder' = feeder
    BY <1>6 DEF LlmEnds
  <2>3. CASE w = "feeder"
    BY <1>2, <1>3, <2>1, <2>2, <2>3 DEF FedInv, Pulls, audio
  <2>4. CASE w = "drive"
    BY <1>2, <1>3, <2>1, <2>2, <2>4 DEF FedInv, Pulls, audio
  <2> QED  BY <2>3, <2>4
<1>7. CASE LlmRaises(w)
  <2>1. llm'.n = llm.n
    BY <1>0, <1>7 DEF LlmRaises, LlmState
  <2>2. \/ w = "feeder" /\ feeder' = "ended" /\ cut' /\ drive' = drive
        \/ w = "drive" /\ drive' = "end" /\ UNCHANGED <<feeder, audio, cut>>
    BY <1>7 DEF LlmRaises, FeedFails
  <2>3. CASE w = "feeder"
    BY <1>2, <1>3, <2>1, <2>2, <2>3 DEF FedInv, Pulls
  <2>4. CASE w = "drive"
    BY <1>2, <1>3, <2>1, <2>2, <2>4 DEF FedInv, Pulls, audio
  <2> QED  BY <2>3, <2>4
<1> QED  BY <1>4, <1>5, <1>6, <1>7 DEF StreamStep

LEMMA FedOthers ==
  ASSUME TypeInv, FedInv, Next, ~StreamStep("drive"), ~StreamStep("feeder")
  PROVE  FedInv'
<1>0. llm.n \in Nat /\ dials \in Nat /\ stale \in 0 .. dials
  BY VoiceAssumption DEF TypeInv, ThreadsTyped, LlmState, ServiceTyped
<1>1. UNCHANGED llm
  BY DEF Next, DriveStep, FeederStep, ServiceStep, RequestStep, DialFails, Dials, PlaysFrame,
         EndsPlay, GivesUp, Closes, Joins, Ends, Appends, FinishesText, SendFails, ServiceSpeaks,
         ServiceEnds, StaleCloses, TranscribeFails, HearsNothing, Transcribes, Takes, Leaves
<1>2. CASE DialFails
  BY <1>0, <1>1, <1>2 DEF DialFails, FedInv, audio
<1>3. CASE Dials
  BY <1>0, <1>1, <1>3 DEF Dials, FedInv, audio
<1>4. CASE PlaysFrame \/ Closes \/ Joins \/ Ends
  BY <1>0, <1>1, <1>4 DEF PlaysFrame, Closes, Joins, Ends, FedInv, service, audio
<1>5. CASE EndsPlay
  <2>1. done
    <3>1. audio_q \in Seq({"frame", "DONE"}) /\ audio_q # <<>>
      BY <1>5 DEF EndsPlay, TypeInv, AudioTyped
    <3>2. 1 \in DOMAIN audio_q /\ audio_q[1] = "DONE"
      BY <1>5, <3>1 DEF EndsPlay
    <3> QED  BY <3>2 DEF TypeInv, AudioTyped
  <2> QED  BY <1>0, <1>1, <1>5, <2>1 DEF EndsPlay, FedInv, service
<1>6. CASE GivesUp
  BY <1>0, <1>1, <1>6 DEF GivesUp, FedInv, service, audio
<1>7. CASE Appends
  BY <1>0, <1>1, <1>7 DEF Appends, FedInv, service, audio
<1>7a. CASE FinishesText
  <2>1. finished' /\ llm.state = "ended" /\ llm.n >= 1 /\ feeder # "none"
    BY <1>7a DEF FinishesText, FedInv
  <2> QED  BY <1>1, <1>7a, <2>1 DEF FinishesText, FedInv, audio
<1>7b. CASE SendFails
  <2>1. cut' /\ feeder # "none" /\ feeder' = "ended" /\ llm.n >= 1
    BY <1>7b DEF SendFails, FeedFails, FedInv
  <2>2. drive' = drive /\ session' = session /\ finished' = finished
    BY <1>7b DEF SendFails, service
  <2> QED  BY <1>1, <2>1, <2>2 DEF FedInv
<1>8. CASE ServiceSpeaks
  BY <1>0, <1>1, <1>8 DEF ServiceSpeaks, FedInv
<1>8a. CASE ServiceEnds \/ StaleCloses
  <2>1. llm.n >= 1
    BY <1>0, <1>8a DEF ServiceEnds, StaleCloses, FedInv
  <2>2. finished' = finished /\ (finished \/ cut')
    BY <1>8a DEF ServiceEnds, StaleCloses
  <2>3. UNCHANGED <<drive, feeder, dials>> /\ (session' # "none" => session # "none")
    BY <1>8a DEF ServiceEnds, StaleCloses
  <2> QED  BY <1>1, <2>1, <2>2, <2>3 DEF FedInv
<1>9. CASE TranscribeFails \/ HearsNothing \/ Transcribes \/ Takes \/ Leaves
  <2>1. UNCHANGED <<feeder, service, audio, cut>>
    BY <1>9 DEF TranscribeFails, HearsNothing, Transcribes, Takes, Leaves
  <2>2. drive' = drive \/ (drive = "none" /\ drive' = "pull")
    BY <1>9 DEF TranscribeFails, HearsNothing, Transcribes, Takes, Leaves, TypeInv, ThreadsTyped
  <2> QED  BY <1>0, <1>1, <2>1, <2>2 DEF FedInv, service, audio
<1> QED  BY <1>2, <1>3, <1>4, <1>5, <1>6, <1>7, <1>7a, <1>7b, <1>8, <1>8a, <1>9
         DEF Next, DriveStep, FeederStep, ServiceStep, RequestStep

LEMMA FedStep == TypeInv /\ FedInv /\ [Next]_vars => FedInv'
<1>1. TypeInv /\ FedInv /\ UNCHANGED vars => FedInv'
  BY DEF vars, service, audio, FedInv
<1> QED  BY <1>1, FedStream, FedOthers

-----------------------------------------------------------------------------
(* What the page misses *)

Errored == told \/ \E k \in DOMAIN bus : bus[k].kind = "error"

VoiceLost == cut \/ dials = TTS_DIAL_ATTEMPTS

(* Why the answer may stop where the bus has position i. *)
AccountedAt(i) ==
  \/ llm.state = "ended" /\ \A k \in TokenPositions : k < i
  \/ told \/ \E k \in DOMAIN bus : k < i /\ bus[k].kind = "error"
  \/ VoiceLost /\ (shown # <<>> \/ \E k \in TokenPositions : k < i)

EndInv ==
  /\ drive = "end" => llm.state = "ended" \/ Errored \/ VoiceLost
  /\ \A i \in DOMAIN bus : bus[i].kind = "end" => AccountedAt(i)
  /\ AnswerAccountedFor

LEMMA EndInit == Init => EndInv
BY DEF Init, EndInv, AnswerAccountedFor

(* Something was said before the voice could be lost. *)
LEMMA LostAfterFirst ==
  ASSUME TypeInv, OneModelSpeaks, FedInv, VoiceLost
  PROVE  shown # <<>> \/ \E k \in TokenPositions : TRUE
<1>1. llm.n >= 1 /\ llm.n \in Nat
  BY VoiceAssumption, SpeakNumbers DEF VoiceLost, FedInv, TypeInv, ServiceTyped
<1>2. CASE shown = <<>>
  <2>1. 1 \in StillToShow
    BY <1>1, <1>2 DEF StillToShow
  <2> QED  BY <2>1 DEF OneModelSpeaks
<1> QED  BY <1>2

(* What has been accounted for stays so while nothing is shown. *)
LEMMA AccountedStays ==
  ASSUME TypeInv, Lasting, NEW i \in DOMAIN bus, AccountedAt(i), UNCHANGED shown,
         DOMAIN bus \subseteq DOMAIN bus', \A k \in DOMAIN bus : bus'[k] = bus[k],
         \A k \in TokenPositions' : k < i => k \in TokenPositions,
         llm.state = "ended" => \A k \in TokenPositions' : k \in TokenPositions
  PROVE  AccountedAt(i)'
<1>1. VoiceLost => VoiceLost'
  BY DEF Lasting, VoiceLost
<1>2. \A k \in TokenPositions : k \in TokenPositions'
  BY DEF TokenPositions
<1>3. CASE llm.state = "ended" /\ \A k \in TokenPositions : k < i
  BY <1>3 DEF Lasting, AccountedAt
<1>4. CASE told \/ \E k \in DOMAIN bus : k < i /\ bus[k].kind = "error"
  BY <1>4 DEF Lasting, AccountedAt
<1>5. CASE VoiceLost /\ (shown # <<>> \/ \E k \in TokenPositions : k < i)
  BY <1>1, <1>2, <1>5 DEF AccountedAt
<1> QED  BY <1>3, <1>4, <1>5 DEF AccountedAt

(* A finished request stays accounted for. *)
LEMMA DoneStays ==
  ASSUME TypeInv, AnswerAccountedFor, Lasting, page' = "done" => page = "done"
  PROVE  AnswerAccountedFor'
BY DEF AnswerAccountedFor, Lasting

LEMMA WhyEnd ==
  ASSUME TypeInv, FedInv, [Next]_vars, drive' = "end", drive # "end"
  PROVE  \/ llm'.state = "ended"
         \/ (bus' = Append(bus, ErrorEvent))
         \/ VoiceLost'
<1>1. CASE StreamStep("drive")
  <2>1. LlmEnds("drive") \/ LlmRaises("drive")
    BY <1>1 DEF StreamStep, Prepares, TokenArrives, FallsBack, Apologises, Receives
  <2>2. llm \in LlmState
    BY DEF TypeInv, ThreadsTyped
  <2> QED  BY <2>1, <2>2 DEF LlmEnds, LlmRaises, LlmState
<1>2. CASE DialFails
  <2>1. dials' = dials + 1 /\ ~(dials + 1 < TTS_DIAL_ATTEMPTS)
    BY <1>2 DEF DialFails
  <2>2. dials < TTS_DIAL_ATTEMPTS /\ dials \in Nat
    BY <1>2, VoiceAssumption DEF DialFails, TypeInv, ThreadsTyped, ServiceTyped
  <2> QED  BY <2>1, <2>2, VoiceAssumption DEF VoiceLost
<1>3. CASE Joins
  BY <1>3 DEF Joins, FedInv, VoiceLost
<1>4. DriveStep => StreamStep("drive") \/ DialFails \/ Joins
  BY DEF DriveStep, Dials, PlaysFrame, EndsPlay, GivesUp, Closes, Ends
<1>5. CASE StreamStep("feeder")
  BY <1>5 DEF StreamStep, Prepares, TokenArrives, FallsBack, Apologises, LlmEnds, LlmRaises, Receives
<1>6. ~Appends /\ ~FinishesText /\ ~SendFails /\ ~ServiceStep /\ ~RequestStep /\ ~Leaves
  BY DEF Appends, FinishesText, SendFails, ServiceStep, ServiceSpeaks, ServiceEnds, StaleCloses,
         RequestStep, TranscribeFails, HearsNothing, Transcribes, Takes, Leaves
<1> QED  BY <1>1, <1>2, <1>3, <1>4, <1>5, <1>6 DEF Next, FeederStep, vars

LEMMA ErroredStays ==
  ASSUME TypeInv, [Next]_vars, Errored
  PROVE  Errored'
<1>1. Lasting /\ (Still \/ Emits \/ Says(ErrorEvent) \/ Says(AudioEvent) \/ Ends \/ Takes)
  BY StepEffect
<1>2. CASE told
  BY <1>1, <1>2 DEF Lasting, Errored
<1>3. ASSUME NEW k \in DOMAIN bus, bus[k].kind = "error" PROVE Errored'
  <2>1. CASE Still
    BY <1>3, <2>1 DEF Still, Errored
  <2>2. ASSUME NEW e, bus' = Append(bus, e) PROVE Errored'
    <3>1. bus \in Seq(Events) /\ k \in 1 .. Len(bus) /\ Len(bus) \in Nat
      BY DEF TypeInv, ThreadsTyped
    <3>2. k \in DOMAIN Append(bus, e) /\ Append(bus, e)[k] = bus[k]
      BY <3>1
    <3> QED  BY <1>3, <2>2, <3>2 DEF Errored
  <2>3. CASE Takes
    <3>1. /\ DOMAIN bus = 1 .. Len(bus) /\ DOMAIN bus' = 1 .. (Len(bus) - 1)
          /\ Len(bus) \in Nat /\ Head(bus) = bus[1]
          /\ \A i \in 1 .. (Len(bus) - 1) : bus'[i] = bus[i + 1]
      BY <2>3, BusTakes
    <3>2. CASE k = 1
      BY <1>3, <2>3, <3>1, <3>2 DEF Takes, Errored
    <3>3. CASE k # 1
      <4>1. k - 1 \in 1 .. (Len(bus) - 1) /\ (k - 1) + 1 = k
        BY <3>1, <3>3
      <4>2. bus'[k - 1] = bus[k]
        BY <3>1, <4>1
      <4> QED  BY <1>3, <3>1, <4>1, <4>2 DEF Errored
    <3> QED  BY <3>2, <3>3
  <2> QED  BY <1>1, <2>1, <2>2, <2>3 DEF Emits, Says, Ends
<1> QED  BY <1>2, <1>3 DEF Errored

LEMMA EndReason ==
  ASSUME TypeInv, FedInv, EndInv, [Next]_vars, drive' = "end"
  PROVE  (llm.state = "ended" \/ Errored \/ VoiceLost)'
<1>1. Lasting
  BY StepEffect
<1>2. CASE drive = "end"
  <2>1. llm.state = "ended" => llm'.state = "ended"
    BY <1>1 DEF Lasting
  <2>2. VoiceLost => VoiceLost'
    BY <1>1 DEF Lasting, VoiceLost
  <2> QED  BY <1>2, <2>1, <2>2, ErroredStays DEF EndInv
<1>3. CASE drive # "end"
  <2>1. CASE bus' = Append(bus, ErrorEvent)
    <3>1. /\ DOMAIN bus' = 1 .. (Len(bus) + 1) /\ Len(bus) \in Nat
          /\ bus'[Len(bus) + 1] = ErrorEvent
      BY <2>1, BusAppends, TokensAreEvents
    <3>2. ErrorEvent.kind = "error"
      BY DEF ErrorEvent
    <3> QED  BY <3>1, <3>2 DEF Errored
  <2> QED  BY <1>3, <2>1, WhyEnd
<1> QED  BY <1>2, <1>3

(* An event put on the bus behind what is there. *)
LEMMA AccountedAppends ==
  ASSUME TypeInv, EndInv, Lasting, NEW e \in Events, bus' = Append(bus, e), UNCHANGED shown,
         e.kind = "token" => llm.state # "ended", NEW i \in DOMAIN bus, bus[i].kind = "end"
  PROVE  AccountedAt(i)'
<1>1. /\ Len(bus) \in Nat
      /\ DOMAIN bus = 1 .. Len(bus) /\ DOMAIN bus' = 1 .. (Len(bus) + 1)
      /\ \A k \in 1 .. Len(bus) : bus'[k] = bus[k]
      /\ bus'[Len(bus) + 1] = e
  BY BusAppends
<1>2. \A k \in TokenPositions' : k \in TokenPositions \/ (k = Len(bus) + 1 /\ e.kind = "token")
  BY <1>1 DEF TokenPositions
<1>3. \A k \in TokenPositions' : k < i => k \in TokenPositions
  BY <1>1, <1>2
<1>4. llm.state = "ended" => \A k \in TokenPositions' : k \in TokenPositions
  BY <1>2
<1>5. AccountedAt(i)
  BY DEF EndInv
<1>6. DOMAIN bus \subseteq DOMAIN bus'
  BY <1>1
<1> QED  BY <1>1, <1>3, <1>4, <1>5, <1>6, AccountedStays

LEMMA AccountedTakes ==
  ASSUME TypeInv, EndInv, Lasting, Takes, NEW i \in DOMAIN bus', bus'[i].kind = "end"
  PROVE  AccountedAt(i)'
<1>1. /\ DOMAIN bus = 1 .. Len(bus) /\ DOMAIN bus' = 1 .. (Len(bus) - 1)
      /\ Len(bus) \in Nat /\ Head(bus) = bus[1]
      /\ \A k \in 1 .. (Len(bus) - 1) : bus'[k] = bus[k + 1]
  BY BusTakes
<1>2. i + 1 \in DOMAIN bus /\ bus[i + 1].kind = "end" /\ i \in Nat
  BY <1>1
<1>3. AccountedAt(i + 1)
  BY <1>2 DEF EndInv
<1>4. ASSUME NEW k \in DOMAIN bus, k # 1, k < i + 1
      PROVE  k - 1 \in DOMAIN bus' /\ k - 1 < i /\ bus'[k - 1] = bus[k]
  <2>1. k - 1 \in 1 .. (Len(bus) - 1) /\ (k - 1) + 1 = k /\ k - 1 < i
    BY <1>1, <1>2, <1>4
  <2> QED  BY <1>1, <2>1
<1>5. CASE llm.state = "ended" /\ \A k \in TokenPositions : k < i + 1
  <2>1. ASSUME NEW k \in TokenPositions' PROVE k < i
    <3>1. k \in 1 .. (Len(bus) - 1) /\ k + 1 \in TokenPositions
      BY <1>1 DEF TokenPositions
    <3>2. k + 1 < i + 1
      BY <1>5, <3>1
    <3> QED  BY <1>2, <3>1, <3>2
  <2>2. llm'.state = "ended"
    BY <1>5 DEF Takes
  <2> QED  BY <2>1, <2>2 DEF AccountedAt
<1>6. CASE told
  BY <1>6 DEF AccountedAt, Lasting
<1>7. ASSUME NEW k \in DOMAIN bus, k < i + 1, bus[k].kind = "error" PROVE AccountedAt(i)'
  <2>1. CASE k = 1
    BY <1>1, <1>7, <2>1 DEF Takes, AccountedAt
  <2>2. CASE k # 1
    BY <1>4, <1>7, <2>2 DEF AccountedAt
  <2> QED  BY <2>1, <2>2
<1>8. CASE VoiceLost /\ (shown # <<>> \/ \E k \in TokenPositions : k < i + 1)
  <2>1. VoiceLost'
    BY <1>8 DEF Lasting, VoiceLost
  <2>2. ASSUME shown # <<>> \/ bus[1].kind = "token" PROVE shown' # <<>>
    <3>1. CASE bus[1].kind = "token"
      <4>1. shown' = Append(shown, bus[1].token) /\ 1 \in TokenPositions
        BY <1>1, <1>2, <3>1 DEF Takes, TokenPositions
      <4>2. bus[1].token \in Token /\ shown \in Seq(Token)
        BY <4>1, SpeakNumbers
      <4> QED  BY <4>1, <4>2, AppendProperties
    <3>2. CASE bus[1].kind # "token"
      BY <1>1, <2>2, <3>2 DEF Takes
    <3> QED  BY <3>1, <3>2
  <2>3. CASE shown # <<>>
    BY <2>1, <2>2, <2>3 DEF AccountedAt
  <2>4. ASSUME NEW k \in TokenPositions, k < i + 1 PROVE AccountedAt(i)'
    <3>1. k \in DOMAIN bus /\ bus[k].kind = "token"
      BY DEF TokenPositions
    <3>2. CASE k = 1
      BY <2>1, <2>2, <3>1, <3>2 DEF AccountedAt
    <3>3. CASE k # 1
      <4>1. k - 1 \in TokenPositions' /\ k - 1 < i
        BY <1>4, <2>4, <3>1, <3>3 DEF TokenPositions
      <4> QED  BY <2>1, <4>1 DEF AccountedAt
    <3> QED  BY <3>2, <3>3
  <2> QED  BY <1>8, <2>3, <2>4
<1> QED  BY <1>3, <1>5, <1>6, <1>7, <1>8 DEF AccountedAt

(* The request takes the end of the answer. *)
LEMMA DoneAccounted ==
  ASSUME TypeInv, OneModelSpeaks, EndInv, Takes
  PROVE  AnswerAccountedFor'
<1>1. /\ DOMAIN bus = 1 .. Len(bus) /\ Len(bus) \in Nat /\ Len(bus) >= 1
      /\ Head(bus) = bus[1] /\ page = "open"
  BY BusTakes DEF Takes
<1>2. CASE bus[1].kind # "end"
  BY <1>1, <1>2 DEF Takes, AnswerAccountedFor
<1>3. CASE bus[1].kind = "end"
  <2>1. shown' = shown /\ llm' = llm /\ told' = told /\ cut' = cut /\ dials' = dials
    BY <1>1, <1>3, SpeakNumbers DEF Takes, service, TypeInv, RequestTyped
  <2>2. AccountedAt(1)
    BY <1>1, <1>3 DEF EndInv
  <2>3. \A k \in DOMAIN bus : ~(k < 1)
    BY <1>1
  <2>4. CASE llm.state = "ended" /\ \A k \in TokenPositions : k < 1
    <3>1. TokenPositions = {}
      BY <2>3, <2>4 DEF TokenPositions
    <3>2. StillToShow = {}
      BY <3>1 DEF OneModelSpeaks
    <3>3. Len(shown) = llm.n
      BY <3>2, SpeakNumbers DEF StillToShow, OneModelSpeaks
    <3>4. shown = Answer(llm.model, llm.n)
      BY <3>3 DEF OneModelSpeaks
    <3> QED  BY <2>1, <2>4, <3>4 DEF AnswerAccountedFor, Answer
  <2>5. CASE told
    BY <2>1, <2>5 DEF AnswerAccountedFor
  <2>6. CASE VoiceLost /\ shown # <<>>
    BY <2>1, <2>6 DEF AnswerAccountedFor, VoiceLost
  <2>7. \A k \in TokenPositions : ~(k < 1)
    BY <2>3 DEF TokenPositions
  <2> QED  BY <2>2, <2>3, <2>4, <2>5, <2>6, <2>7 DEF AccountedAt
<1> QED  BY <1>2, <1>3

LEMMA EndStep == TypeInv /\ OneModelSpeaks /\ FedInv /\ EndInv /\ [Next]_vars => EndInv'
<1> SUFFICES ASSUME TypeInv, OneModelSpeaks, FedInv, EndInv, [Next]_vars PROVE EndInv'
  OBVIOUS
<1>1. Lasting /\ (Still \/ Emits \/ Says(ErrorEvent) \/ Says(AudioEvent) \/ Ends \/ Takes)
  BY StepEffect
<1>2. bus \in Seq(Events) /\ AnswerAccountedFor
  BY DEF TypeInv, ThreadsTyped, EndInv
<1>3. drive' = "end" => (llm.state = "ended" \/ Errored \/ VoiceLost)'
  BY EndReason
<1>4. AnswerAccountedFor'
  <2>1. CASE Takes
    BY <2>1, DoneAccounted
  <2>2. CASE ~Takes
    <3>1. page' = "done" => page = "done"
      BY <1>1, <2>2 DEF Still, Emits, Says, Ends, request
    <3> QED  BY <1>1, <1>2, <3>1, DoneStays
  <2> QED  BY <2>1, <2>2
<1>5. ASSUME NEW i \in DOMAIN bus', bus'[i].kind = "end" PROVE AccountedAt(i)'
  <2>1. CASE Still
    <3>1. bus' = bus /\ shown' = shown /\ TokenPositions' = TokenPositions
      BY <2>1 DEF Still, TokenPositions
    <3>2. AccountedAt(i)
      BY <1>5, <3>1 DEF EndInv
    <3> QED  BY <1>1, <1>5, <3>1, <3>2, AccountedStays
  <2>2. ASSUME NEW e \in Events, e.kind # "end", bus' = Append(bus, e), UNCHANGED shown,
               e.kind = "token" => llm.state # "ended"
        PROVE  AccountedAt(i)'
    <3>1. i \in DOMAIN bus /\ bus[i].kind = "end"
      BY <1>5, <2>2, BusAppends
    <3> QED  BY <1>1, <2>2, <3>1, AccountedAppends
  <2>3. CASE Emits
    <3>1. [model |-> llm'.model, nr |-> llm'.n] \in Token
      <4>1. llm' \in LlmState /\ llm.n \in Nat /\ llm'.n = llm.n + 1 /\ MaxTokens \in Nat
        BY <2>3, TypeStep, SpeakNumbers, VoiceAssumption DEF Emits, TypeInv, ThreadsTyped
      <4> QED  BY <4>1 DEF LlmState, Token
    <3> QED  BY <2>2, <2>3, <3>1, TokensAreEvents DEF Emits
  <2>4. CASE Says(ErrorEvent) \/ Says(AudioEvent)
    <3>1. ErrorEvent.kind = "error" /\ AudioEvent.kind = "audio"
      BY DEF ErrorEvent, AudioEvent
    <3> QED  BY <2>2, <2>4, <3>1, TokensAreEvents DEF Says
  <2>5. CASE Ends
    <3>1. /\ DOMAIN bus = 1 .. Len(bus) /\ DOMAIN bus' = 1 .. (Len(bus) + 1)
          /\ Len(bus) \in Nat
          /\ \A k \in 1 .. Len(bus) : bus'[k] = bus[k]
          /\ bus'[Len(bus) + 1] = EndEvent
      BY <2>5, BusAppends, TokensAreEvents DEF Ends
    <3>2. EndEvent.kind = "end" /\ shown' = shown /\ llm' = llm /\ told' = told
            /\ drive = "end"
      BY <2>5 DEF EndEvent, Ends, request
    <3>3. CASE i \in DOMAIN bus
      BY <1>1, <1>5, <2>5, <3>1, <3>2, <3>3, AccountedAppends, TokensAreEvents DEF Ends
    <3>4. CASE i = Len(bus) + 1
      <4>1. \A k \in DOMAIN bus : k < i /\ k \in DOMAIN bus' /\ bus'[k] = bus[k]
        BY <3>1, <3>4
      <4>2. \A k \in TokenPositions : k < i /\ k \in TokenPositions'
        BY <4>1 DEF TokenPositions
      <4>3. \A k \in TokenPositions' : k < i
        BY <3>1, <3>2, <3>4 DEF TokenPositions
      <4>4. CASE llm.state = "ended"
        BY <3>2, <4>3, <4>4 DEF AccountedAt
      <4>5. CASE Errored
        BY <3>2, <4>1, <4>5 DEF AccountedAt, Errored
      <4>6. CASE VoiceLost
        <5>1. VoiceLost'
          BY <1>1, <4>6 DEF Lasting, VoiceLost
        <5>2. shown' # <<>> \/ \E k \in TokenPositions' : k < i
          BY <3>2, <4>2, <4>6, LostAfterFirst
        <5> QED  BY <5>1, <5>2 DEF AccountedAt
      <4> QED  BY <3>2, <4>4, <4>5, <4>6 DEF EndInv
    <3> QED  BY <3>1, <3>3, <3>4
  <2>6. CASE Takes
    BY <1>1, <1>5, <2>6, AccountedTakes
  <2> QED  BY <1>1, <2>1, <2>3, <2>4, <2>5, <2>6
<1> QED  BY <1>3, <1>4, <1>5 DEF EndInv

(***************************************************************************)
(* voice/provider.py synthesize_stream, frontend/api/main.py voice_stream: *)
(* a finished request has shown the whole answer, or an error, or lost the *)
(* rest of it after its first token to dials that all failed, a session    *)
(* that ended early or a failure while feeding.                            *)
(***************************************************************************)
THEOREM Accounted == Spec => []AnswerAccountedFor
<1>1. TypeInv /\ OneModelSpeaks /\ FedInv /\ EndInv /\ [Next]_vars
        => (TypeInv /\ OneModelSpeaks /\ FedInv /\ EndInv)'
  BY TypeStep, SpeakStep, FedStep, EndStep
<1>2. EndInv => AnswerAccountedFor
  BY DEF EndInv
<1> QED  BY <1>1, <1>2, TypeInit, SpeakInit, FedInit, EndInit, PTL DEF Spec
=============================================================================
