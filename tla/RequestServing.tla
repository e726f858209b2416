--------------------------- MODULE RequestServing ---------------------------
(***************************************************************************)
(* The Flask server of a container (acprof/container/server.py) with the   *)
(* handlers it loads: /scale_meta and /predict.  Every request has a       *)
(* thread of its own, and all of them share model_ctx: the observation of  *)
(* a text generation, the recurrent state of the voice detector, and the   *)
(* device, on which work goes on after a thread has given it up.  A client *)
(* sends one request after another, as a measured case does, or several at *)
(* once, as acprof load may.                                               *)
(***************************************************************************)
EXTENDS Integers, Sequences, FiniteSets

CONSTANTS
    Handlers,       \* the loaded models to consider: task, device, limit, overhead, reserve
    Sizes,          \* input sizes to consider: tokens, seconds, rows, pixels
    Batches,        \* batch_size
    Sent,           \* bound: requests of a behaviour
    Parallel        \* whether several requests may be open

SingleTexts == {"generation", "embedding"}
Pairs == {"question", "ranking"}
Sounds == {"whisper", "waveform", "voice"}
Pictures == {"text-to-image", "conditioned", "native"}
\* Their inputs state their own size.
DeclaredTasks == {"onnx-text", "rows", "features", "image", "media", "native"}
Tasks == SingleTexts \cup Pairs \cup {"speech"} \cup Sounds \cup {"series"} \cup DeclaredTasks
         \cup Pictures

ASSUME ServingAssumption ==
    /\ Sent \in Nat /\ Sizes \subseteq Nat \ {0} /\ Batches \subseteq Nat \ {0}
    /\ Parallel \in BOOLEAN
    /\ \A h \in Handlers :
          /\ h.task \in Tasks /\ h.device \in {"cpu", "cuda"}
          /\ {h.limit, h.overhead, h.reserve} \subseteq Nat

VARIABLES
    handler,        \* the model that is served
    server,         \* loading, ready, down
    waits,          \* the requests whose answer the client awaits
    giveUp,         \* a timeout ends the case
    request,        \* request[r]: where its thread is, and what it has so far
    observation,    \* model_ctx["_generation_observation"]
    recurrent,      \* the requests whose frames the voice detector remembers
    computing       \* the requests the device still works for

servingVars == <<handler, server, waits, giveUp, request, observation, recurrent, computing>>
shared == <<observation, recurrent, computing>>
patience == <<waits, giveUp>>

Numbers == 1..Sent
FrameCount == 2         \* bound: frames of one input of the voice detector
TextAudioCap == 3       \* stands for the cap of 512 tokens
ShortForm == 3          \* stands for the 30 s of Whisper
Smallest == 2           \* stands for 64 pixels, 1 for 8
Nothing == <<>>
NoMaximum == -1

NoRequest == [at |-> "none", size |-> 0, honest |-> TRUE, batch |-> 1, scale |-> 0,
              cut |-> FALSE, done |-> 0, heard |-> Nothing, tokens |-> Nothing]
Blank == [inputs |-> Nothing, outputs |-> Nothing, batch |-> 0]

Over == {"none", "answered", "failed", "refused", "gone"}
Open == {r \in Numbers : request[r].at \notin Over}
Greater(a, b) == IF a > b THEN a ELSE b
-----------------------------------------------------------------------------
(* Limits: what a handler promises and what it does                        *)

\* _single_text_budget: special tokens as overhead; max_new_tokens, for causal
\* models, or the prompt of an embedding as reserve.
TextBudget(h) == Greater(1, h.limit - h.overhead - h.reserve)
NoTextBudget(h) == h.limit > 0 /\ h.reserve > 0 /\ h.limit - h.overhead - h.reserve < 1

\* _truncate_qa_context: question, query or hypothesis, and special tokens, as overhead.
PairBudget(h) == Greater(0, h.limit - h.overhead)

SpeechBudget(h) == IF h.limit = 0 THEN TextAudioCap ELSE Greater(1, h.limit - h.overhead)
ShortFormLimit(h) == IF h.limit = 0 THEN ShortForm ELSE h.limit

\* Mutant: the tokens to be generated are left out of the promise.
TextPromise_NoReserve(h) ==
    IF h.limit = 0 THEN NoMaximum
    ELSE IF h.task \in Pairs THEN PairBudget(h) ELSE Greater(1, h.limit - h.overhead)

\* get_scale_metadata: max_effective_input_scale, or none.
TextPromise(h) ==
    IF h.limit = 0 \/ NoTextBudget(h) THEN NoMaximum
    ELSE IF h.task \in Pairs THEN PairBudget(h) ELSE TextBudget(h)
SoundPromise(h) ==
    CASE h.task = "speech" -> SpeechBudget(h)
      [] h.task = "whisper" -> ShortFormLimit(h)
      [] h.task = "waveform" /\ h.limit > 0 -> h.limit
      [] OTHER -> NoMaximum
SeriesPromise(h) == IF h.limit = 0 THEN NoMaximum ELSE h.limit
OnnxTextPromise(h) == h.limit - h.overhead

Promise(h) ==
    CASE h.task \in SingleTexts \cup Pairs -> TextPromise(h)
      [] h.task \in Sounds \cup {"speech"} -> SoundPromise(h)
      [] h.task = "series" -> SeriesPromise(h)
      [] h.task = "onnx-text" -> OnnxTextPromise(h)
      [] OTHER -> NoMaximum

\* Pictures promise a smallest resolution and a multiple instead.
Multiple(h) == Greater(1, h.limit)
Admits(h, size) == size >= Smallest /\ size % Multiple(h) = 0

\* What a handler that cuts, or marks, takes of an input.
Room(h) ==
    CASE h.task \in SingleTexts -> TextBudget(h)
      [] h.task \in Pairs -> PairBudget(h)
      [] h.task = "speech" -> SpeechBudget(h)
      [] h.task = "whisper" -> ShortFormLimit(h)
      [] h.task = "waveform" -> h.limit
Cuts(h) == h.task \in SingleTexts \cup Pairs \cup {"speech"}
Marks(h) == h.task \in {"whisper", "waveform"}
Exceeds(h, q) ==
    /\ Cuts(h) \/ Marks(h)
    /\ h.limit > 0 \/ h.task \in {"speech", "whisper"}
    /\ q.size > Room(h)

\* preprocess raises: no budget is left, the input is too long for a model that
\* takes no part of it, or it is not the input that was declared.
RefusesText(h, q) == h.task \in SingleTexts /\ NoTextBudget(h)
RefusesSeries(h, q) == h.task = "series" /\ h.limit > 0 /\ q.size > h.limit
RefusesOnnxText(h, q) == h.task = "onnx-text" /\ (q.size + h.overhead > h.limit \/ ~q.honest)
RefusesRows(h, q) == h.task = "rows" /\ (~q.honest \/ (h.limit > 0 /\ q.size * q.batch # h.limit))
RefusesFeatures(h, q) == h.task = "features" /\ ~q.honest
RefusesImage(h, q) == h.task = "image" /\ ~q.honest
RefusesMedia(h, q) == h.task = "media" /\ (~q.honest \/ (h.limit > 0 /\ q.size > h.limit))
RefusesPicture(h, q) ==
    /\ h.task \in {"text-to-image", "conditioned"}
    /\ q.size < Smallest \/ (h.task = "conditioned" /\ q.size % Multiple(h) # 0)
RefusesNative(h, q) == h.task = "native" /\ (~q.honest \/ ~Admits(h, q.size))

Refuses(h, q) ==
    \/ RefusesText(h, q) \/ RefusesSeries(h, q) \/ RefusesOnnxText(h, q) \/ RefusesRows(h, q)
    \/ RefusesFeatures(h, q) \/ RefusesImage(h, q) \/ RefusesMedia(h, q)
    \/ RefusesPicture(h, q) \/ RefusesNative(h, q)

\* Too much text is cut, and counted again once decoded and encoded; too much
\* sound is only marked.
EffectiveScales(h, q) ==
    IF Cuts(h) /\ Exceeds(h, q) THEN (Room(h) - 1)..(Room(h) + 1) \cap Nat ELSE {q.size}

\* A query that leaves no token to the text is refused; so may be an embedding
\* whose prompt and text are together more tokens than each of them.
MayRefuse(h, q) ==
    \/ h.task = "ranking" /\ 0 \in EffectiveScales(h, q)
    \/ h.task = "embedding" /\ h.limit > 0 /\ h.reserve > 0
-----------------------------------------------------------------------------
(* The server and its container                                            *)

ServingInit ==
    /\ handler \in Handlers
    /\ server = "loading" /\ waits = {} /\ giveUp = FALSE
    /\ request = [r \in Numbers |-> NoRequest]
    /\ observation = Blank /\ recurrent = {} /\ computing = {}

\* configured_execution and load: no CUDA for ONNX Runtime and the voice detector;
\* the import or the load of any other may fail.
OnlyCpu(h) == h.task \in {"onnx-text", "rows", "voice"}
Serve ==
    /\ server = "loading"
    /\ \/ ~(OnlyCpu(handler) /\ handler.device = "cuda") /\ server' = "ready"
       \/ server' = "down"
    /\ UNCHANGED <<handler, patience, request, shared>>

To(r, place) == request' = [request EXCEPT ![r].at = place]

\* An exception: the answer is a 500 with the stage it came from.
AnswersError(r) == To(r, "failed") /\ waits' = waits \ {r}
-----------------------------------------------------------------------------
(* The client                                                              *)

Ask(r) ==
    /\ server = "ready" /\ ~giveUp /\ request[r].at = "none"
    /\ \A q \in Numbers : q < r => request[q].at # "none"
    /\ Parallel \/ waits = {}
    /\ \E size \in Sizes, batch \in Batches, honest \in BOOLEAN :
          /\ handler.task \notin DeclaredTasks => honest
          /\ request' = [request EXCEPT ![r] = [NoRequest EXCEPT
                           !.at = "preprocess", !.size = size, !.batch = batch, !.honest = honest]]
    /\ waits' = waits \cup {r}
    /\ UNCHANGED <<handler, server, giveUp, shared>>

\* Mutant: a timeout is an error of the row like any other.
TimesOut_GoesOn(r) ==
    /\ r \in waits
    /\ waits' = waits \ {r}
    /\ UNCHANGED <<handler, server, giveUp, request, shared>>

\* requests.exceptions.Timeout: the case ends, or a load counts an error.
TimesOut(r) ==
    /\ r \in waits
    /\ waits' = waits \ {r} /\ giveUp' = ~Parallel
    /\ UNCHANGED <<handler, server, request, shared>>

\* The container of the case is removed with all that runs in it; the next case
\* has one of its own.
NextCase ==
    /\ giveUp /\ giveUp' = FALSE
    /\ server' = "loading"
    /\ request' = [r \in Numbers |-> IF r \in Open THEN [request[r] EXCEPT !.at = "gone"] ELSE request[r]]
    /\ observation' = Blank /\ recurrent' = {} /\ computing' = {}
    /\ UNCHANGED <<handler, waits>>
-----------------------------------------------------------------------------
(* A thread: preprocess, predict, completion, postprocess                  *)

Preprocess(r) ==
    /\ request[r].at = "preprocess"
    /\ \/ /\ Refuses(handler, request[r]) \/ MayRefuse(handler, request[r])
          /\ To(r, "refused") /\ waits' = waits \ {r}
       \/ /\ ~Refuses(handler, request[r])
          /\ \E scale \in EffectiveScales(handler, request[r]) :
                /\ handler.task = "ranking" => scale > 0
                /\ request' = [request EXCEPT ![r].at = "predict", ![r].scale = scale,
                                              ![r].cut = Exceeds(handler, request[r])]
          /\ UNCHANGED waits
    /\ UNCHANGED <<handler, server, giveUp, shared>>

\* Mutant: what an earlier request left behind is kept.
Observe_Keeps(r) == observation' = [observation EXCEPT !.batch = request[r].batch]
\* Mutant: the state of the detector is not reset.
Forget_Not(r) == UNCHANGED recurrent

\* state.update(...), model.reset_states()
Observe(r) == observation' = [Blank EXCEPT !.batch = request[r].batch]
Forget(r) == recurrent' = {}

StartGeneration(r) ==
    /\ request[r].at = "predict" /\ handler.task = "generation"
    /\ Observe(r) /\ To(r, "encode")
    /\ UNCHANGED <<handler, server, patience, recurrent, computing>>

StartVoice(r) ==
    /\ request[r].at = "predict" /\ handler.task = "voice"
    /\ Forget(r) /\ To(r, "frames")
    /\ UNCHANGED <<handler, server, patience, observation, computing>>

\* Whisper refuses here what was marked before.
Predict(r) ==
    /\ request[r].at = "predict" /\ handler.task \notin {"generation", "voice"}
    /\ IF handler.task = "whisper" /\ request[r].cut
       THEN To(r, "refused") /\ waits' = waits \ {r}
       ELSE To(r, "run") /\ UNCHANGED waits
    /\ UNCHANGED <<handler, server, giveUp, shared>>

\* One more of the samples or frames of the request; the last one leads on.
Counted(r, total, next) ==
    LET n == request[r].done + 1 IN
    [request[r] EXCEPT !.done = IF n = total THEN 0 ELSE n,
                       !.at = IF n = total THEN next ELSE @]

\* pipe.preprocess, observed
Encode(r) ==
    /\ request[r].at = "encode"
    /\ observation' = [observation EXCEPT !.inputs = Append(@, r)]
    /\ request' = [request EXCEPT ![r] = Counted(r, request[r].batch, "run")]
    /\ UNCHANGED <<handler, server, patience, recurrent, computing>>

\* Work that CUDA has been given goes on by itself.
KernelsOf(r) == IF handler.device = "cuda" THEN computing \cup {r} ELSE computing

\* The forward pass; with CUDA it has only been started when predict returns, or when
\* it raises after some of its kernels.
Run(r) ==
    /\ request[r].at = "run"
    /\ \/ AnswersError(r) /\ computing' \in {computing, KernelsOf(r)}
       \/ /\ To(r, IF handler.task = "generation" THEN "decode" ELSE "complete")
          /\ computing' = KernelsOf(r)
          /\ UNCHANGED waits
    /\ UNCHANGED <<handler, server, giveUp, observation, recurrent>>

\* pipe.postprocess, observed; to read the tokens is to wait for the device.
Decode(r) ==
    /\ request[r].at = "decode" /\ r \notin computing
    /\ observation' = [observation EXCEPT !.outputs = Append(@, r)]
    /\ request' = [request EXCEPT ![r] = Counted(r, request[r].batch, "complete")]
    /\ UNCHANGED <<handler, server, patience, recurrent, computing>>

Frame(r) ==
    /\ request[r].at = "frames"
    /\ recurrent' = recurrent \cup {r}
    /\ request' = [request EXCEPT ![r] = [Counted(r, FrameCount, "complete")
                                            EXCEPT !.heard = Append(@, recurrent)]]
    /\ UNCHANGED <<handler, server, patience, observation, computing>>

DeviceDone(r) ==
    /\ r \in computing /\ computing' = computing \ {r}
    /\ UNCHANGED <<handler, server, patience, request, observation, recurrent>>

\* Mutant: the output is taken as soon as it is handed out.
Complete_AtOnce(r) ==
    /\ request[r].at = "complete"
    /\ To(r, "postprocess")
    /\ UNCHANGED <<handler, server, patience, shared>>

\* complete_prediction: the device has done it, or the deadline, which may be set below
\* the timeout of the client, has passed while it has not.
Complete(r) ==
    /\ request[r].at = "complete"
    /\ \/ r \notin computing /\ To(r, "postprocess") /\ UNCHANGED waits
       \/ r \in computing /\ AnswersError(r)
    /\ UNCHANGED <<handler, server, giveUp, shared>>

\* _observed_generation: nothing is reported unless there are as many outputs and
\* inputs as samples.
ObservedTokens ==
    IF Len(observation.outputs) = observation.batch /\ Len(observation.inputs) = observation.batch
    THEN observation.outputs ELSE Nothing

Postprocess(r) ==
    /\ request[r].at = "postprocess"
    /\ \/ AnswersError(r)
       \/ /\ request' = [request EXCEPT ![r].at = "answered",
                            ![r].tokens = IF handler.task = "generation" THEN ObservedTokens ELSE Nothing]
          /\ waits' = waits \ {r}
    /\ UNCHANGED <<handler, server, giveUp, shared>>

ServingNext ==
    \/ Serve \/ NextCase
    \/ \E r \in Numbers :
          \/ Ask(r) \/ TimesOut(r) \/ Preprocess(r) \/ StartGeneration(r)
          \/ StartVoice(r) \/ Predict(r) \/ Encode(r) \/ Run(r) \/ Decode(r) \/ Frame(r) \/ DeviceDone(r) \/ Complete(r) \/ Postprocess(r)

ServingSpec == ServingInit /\ [][ServingNext]_servingVars
-----------------------------------------------------------------------------
(* Properties                                                              *)

Places == Over \cup {"preprocess", "predict", "encode", "run", "decode", "frames", "complete",
                     "postprocess"}

ServingTypeOK ==
    /\ handler \in Handlers /\ server \in {"loading", "ready", "down"}
    /\ waits \subseteq Numbers /\ giveUp \in BOOLEAN
    /\ recurrent \subseteq Numbers /\ computing \subseteq Numbers
    /\ \A r \in Numbers :
          /\ request[r].at \in Places /\ request[r].size \in Nat /\ request[r].scale \in Nat
          /\ request[r].batch \in Nat \ {0} /\ request[r].done \in 0..FrameCount
    /\ waits \subseteq Open

Answered == {r \in Numbers : request[r].at = "answered"}

\* The evidence in an answer is of its own request: the tokens that are counted
\* were generated for it, every sample of it is counted, and the voice detector
\* heard its frames and no others.  (handlers/nlp.py, handlers/audio.py)
OwnEvidence ==
    \A r \in Answered :
        /\ handler.task = "generation" => request[r].tokens = [i \in 1..request[r].batch |-> r]
        /\ handler.task = "voice" => request[r].heard = <<{}, {r}>>

\* What /scale_meta promises is what /predict does: an input within the maximum is
\* answered whole, one beyond is refused or said to be cut; and without a cut the
\* effective scale is the true one.  A resolution it admits is accepted.  A prompt may cost an embedding its last token.
\* (get_scale_metadata against preprocess)
ScalesAreKept ==
    \A r \in Numbers :
        LET q == request[r]
            promised == Promise(handler) # NoMaximum
        IN
        /\ promised /\ q.size <= Promise(handler) /\ q.honest =>
              ~q.cut /\ (q.at = "refused" => handler.task = "embedding")
        /\ promised /\ q.size > Promise(handler) /\ q.at = "answered" => q.cut
        /\ handler.task \in Pictures /\ Admits(handler, q.size) /\ q.honest => q.at # "refused"
        /\ q.at = "answered" /\ ~q.cut => q.scale = q.size

\* While the client waits for a request, no other has a thread in the container, and
\* the device works for no other but those whose 500 the client has had; what is
\* answered is done.  (server.py: complete_prediction; client.py: RequestTimeoutAbort)
OneAtWork ==
    /\ \A r \in waits :
          Open \subseteq {r} /\ \A q \in computing \ {r} : request[q].at = "failed"
    /\ Answered \cap computing = {}

\* Requests that are sent one after another are served in turn, and each answer speaks
\* for its own.
ServedInTurn == OwnEvidence /\ OneAtWork

\* Docs: requests run one after another, and a container whose client has stopped
\* waiting is not measured again; so a window measures its own request and no other.
MeasuredAlone == \A r \in waits : Open \cup computing \subseteq {r}
=============================================================================
