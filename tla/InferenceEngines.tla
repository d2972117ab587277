--------------------------- MODULE InferenceEngines ----------------------------
(***************************************************************************)
(* The four InferenceEngine implementations (sozia/server/inference/) and  *)
(* the pool of threads they share: asyncio.to_thread runs loading and      *)
(* inference on the event loop's default executor, whose workers serve a   *)
(* queue.  asyncio.wait_for gives a call of predict up after its timeout;  *)
(* a job that still queues is then cancelled, one that runs cannot be      *)
(* interrupted and keeps its worker.  Meanwhile unload_model may take away *)
(* the attributes that the worker has yet to read.                         *)
(*                                                                         *)
(* An engine has two attributes here: "model", and "companion", which is   *)
(* Whisper's processor, the lip-reader's vocabulary (if one is configured),*)
(* the sign recogniser's actions and scaler, or the tokenizer of           *)
(* gloss-to-text.  Numbers, words and devices are left out.                *)
(***************************************************************************)
EXTENDS Naturals, Sequences, FiniteSets

CONSTANTS
  Engines,   \* engine objects, each of one session
  Classes,   \* the ways their classes may be chosen
  Callers,   \* tasks that call predict: receive loops and watchdogs
  Workers,   \* threads of the executor
  MaxCalls,  \* calls of predict in all
  MaxHung    \* workers that an inference may keep for ever

Kinds == {"asr", "lip", "tsl", "gloss"}
Attributes == {"model", "companion"}

ASSUME PoolAssumption ==
  /\ Classes \subseteq [Engines -> Kinds]
  /\ Workers \in Nat \ {0} /\ MaxCalls \in Nat
  /\ MaxHung \in 0 .. Workers - 1

VARIABLES
  kind,      \* which class each engine is of
  vocab,     \* the lip-reader's vocabulary file: none, one that names every class,
             \* or one that is too short
  parts,     \* the attributes of each engine that are not None
  loading,   \* how far each load_model has come
  jobs,      \* the calls of predict: engine, caller, the worker's stage, outcome
  queue,     \* what waits for a worker
  unloaded   \* the engines that unload_model has emptied (a record)

vars == <<kind, vocab, parts, loading, jobs, queue, unloaded>>

\* SOZIA_LIP_VOCAB need not be set, and matters to a lip-reader only.
Init ==
  /\ kind \in Classes
  /\ vocab \in {"none", "short", "whole"}
  /\ vocab # "none" => \E e \in Engines : kind[e] = "lip"
  /\ parts = [e \in Engines |-> {}]
  /\ loading = [e \in Engines |-> "no"]
  /\ jobs = <<>>
  /\ queue = <<>>
  /\ unloaded = {}

CallTask(j) == <<"call", j>>
LoadTask(e) == <<"load", e>>

\* What each engine's code reads of the object, first and last, on the worker.
AsrReads == [first |-> {"model"}, last |-> {"companion"}]
LipReads == [first |-> {"model"}, last |-> {}]
TslReads == [first |-> {"model"}, last |-> {"companion"}]
GlossReads == [first |-> Attributes, last |-> {"companion"}]
Reads == [asr |-> AsrReads, lip |-> LipReads, tsl |-> TslReads, gloss |-> GlossReads]

Running == {j \in DOMAIN jobs : jobs[j].stage \in {"running", "hung"}}
Hung == {j \in DOMAIN jobs : jobs[j].stage = "hung"}
Loading == {e \in Engines : loading[e] \in {"running", "vocab running"}}
Busy == Cardinality(Running) + Cardinality(Loading)

Unanswered == {j \in DOMAIN jobs : jobs[j].outcome = "none"}
Waiting(c) == {j \in Unanswered : jobs[j].caller = c}

-----------------------------------------------------------------------------
(* load_model and unload_model                                             *)

\* warm_up: load_model gives the reading of the weights to a worker.
LoadStarts(e) ==
  /\ loading[e] = "no"
  /\ loading' = [loading EXCEPT ![e] = "queued"]
  /\ queue' = Append(queue, LoadTask(e))
  /\ UNCHANGED <<kind, vocab, parts, jobs, unloaded>>

\* The weights are read, and load_model sets every attribute and returns.
Loaded(e, k) ==
  /\ kind[e] = k /\ loading[e] = "running"
  /\ loading' = [loading EXCEPT ![e] = "yes"]
  /\ parts' = [parts EXCEPT ![e] = Attributes]
  /\ UNCHANGED <<kind, vocab, jobs, queue, unloaded>>

WhisperLoaded(e) == Loaded(e, "asr")
TslLoaded(e) == Loaded(e, "tsl")
GlossLoaded(e) == Loaded(e, "gloss")

\* The lip-reader sets its model first and then has its vocabulary read, if it has one.
BugVocabLater(e) ==
  /\ kind[e] = "lip" /\ loading[e] = "running"
  /\ loading' = [loading EXCEPT ![e] = "yes"]
  /\ parts' = [parts EXCEPT ![e] = {"model"}]
  /\ UNCHANGED <<kind, vocab, jobs, queue, unloaded>>

LipWeightsLoaded(e) ==
  /\ kind[e] = "lip" /\ loading[e] = "running"
  /\ parts' = [parts EXCEPT ![e] = {"model"}]
  /\ \/ /\ vocab = "none"
        /\ loading' = [loading EXCEPT ![e] = "yes"]
        /\ UNCHANGED queue
     \/ /\ vocab # "none"
        /\ loading' = [loading EXCEPT ![e] = "vocab queued"]
        /\ queue' = Append(queue, LoadTask(e))
  /\ UNCHANGED <<kind, vocab, jobs, unloaded>>

LipVocabLoaded(e) ==
  /\ loading[e] = "vocab running"
  /\ loading' = [loading EXCEPT ![e] = "yes"]
  /\ parts' = [parts EXCEPT ![e] = @ \cup {"companion"}]
  /\ UNCHANGED <<kind, vocab, jobs, queue, unloaded>>

\* A file is missing or does not fit: load_model raises, with what was set kept.
LoadRaises(e) ==
  /\ e \in Loading
  /\ loading' = [loading EXCEPT ![e] = "failed"]
  /\ UNCHANGED <<kind, vocab, parts, jobs, queue, unloaded>>

\* cool_down unloads an engine that is_loaded, whoever may still use it.
Unload(e) ==
  /\ "model" \in parts[e]
  /\ parts' = [parts EXCEPT ![e] = {}]
  /\ unloaded' = unloaded \cup {e}
  /\ UNCHANGED <<kind, vocab, loading, jobs, queue>>

-----------------------------------------------------------------------------
(* predict, up to the wait                                                 *)

\* Task c, which waits for nothing, calls predict of an engine that warm_up loaded.
Calls(c, e, k) ==
  /\ kind[e] = k /\ loading[e] = "yes"
  /\ Waiting(c) = {} /\ Len(jobs) < MaxCalls
  /\ UNCHANGED <<kind, vocab, parts, loading, unloaded>>

\* The call ends at once.
EndsAtOnce(c, e, how) ==
  /\ jobs' = Append(jobs, [engine |-> e, caller |-> c, stage |-> "gone", outcome |-> how])
  /\ UNCHANGED queue

\* The inference is given to a worker.
Submits(c, e) ==
  /\ jobs' = Append(jobs, [engine |-> e, caller |-> c, stage |-> "queued", outcome |-> "none"])
  /\ queue' = Append(queue, CallTask(Len(jobs) + 1))

\* An engine without what predict checks first raises ModelNotLoadedError.  Features
\* of the wrong shape raise too, before a worker is asked.
Predicts(c, e, checked, early) ==
  \/ ~ checked \subseteq parts[e] /\ EndsAtOnce(c, e, "not loaded")
  \/ /\ checked \subseteq parts[e]
     /\ (\E how \in early : EndsAtOnce(c, e, how)) \/ Submits(c, e)

\* Whisper answers silence with an empty text, without asking the model.
WhisperPredict(c, e) ==
  Calls(c, e, "asr") /\ Predicts(c, e, Attributes, {"empty", "raised"})

LipPredict(c, e) == Calls(c, e, "lip") /\ Predicts(c, e, {"model"}, {"raised"})
TslPredict(c, e) == Calls(c, e, "tsl") /\ Predicts(c, e, {"model"}, {"raised"})
GlossPredict(c, e) == Calls(c, e, "gloss") /\ Predicts(c, e, Attributes, {})

-----------------------------------------------------------------------------
(* The executor                                                            *)

Stage(j, from, to) ==
  /\ jobs[j].stage = from
  /\ jobs' = [jobs EXCEPT ![j].stage = to]

\* A free worker takes the head of the queue.  An inference whose engine has lost
\* the attribute it reads first raises at once (None has no such method).
TakesCall(j) ==
  /\ Stage(j, "queued",
       IF Reads[kind[jobs[j].engine]].first \subseteq parts[jobs[j].engine]
       THEN "running" ELSE "broken")
  /\ UNCHANGED loading

TakesLoad(e) ==
  /\ \/ loading[e] = "queued" /\ loading' = [loading EXCEPT ![e] = "running"]
     \/ loading[e] = "vocab queued" /\ loading' = [loading EXCEPT ![e] = "vocab running"]
  /\ UNCHANGED jobs

BugAnyNumber ==
  /\ queue # <<>>
  /\ queue' = Tail(queue)
  /\ \/ \E j \in DOMAIN jobs : Head(queue) = CallTask(j) /\ TakesCall(j)
     \/ \E e \in Engines : Head(queue) = LoadTask(e) /\ TakesLoad(e)
  /\ UNCHANGED <<kind, vocab, parts, unloaded>>

WorkerTakes ==
  /\ queue # <<>> /\ Busy < Workers
  /\ queue' = Tail(queue)
  /\ \/ \E j \in DOMAIN jobs : Head(queue) = CallTask(j) /\ TakesCall(j)
     \/ \E e \in Engines : Head(queue) = LoadTask(e) /\ TakesLoad(e)
  /\ UNCHANGED <<kind, vocab, parts, unloaded>>

\* The inference is through; the worker reads the last attribute and is free,
\* whether or not somebody still waits.
BugEndsIfWanted(j) ==
  /\ j \in DOMAIN jobs /\ jobs[j].outcome = "none"
  /\ Stage(j, "running",
       IF Reads[kind[jobs[j].engine]].last \subseteq parts[jobs[j].engine]
       THEN "computed" ELSE "broken")
  /\ UNCHANGED <<kind, vocab, parts, loading, queue, unloaded>>

WorkerEnds(j) ==
  /\ j \in DOMAIN jobs
  /\ Stage(j, "running",
       IF Reads[kind[jobs[j].engine]].last \subseteq parts[jobs[j].engine]
       THEN "computed" ELSE "broken")
  /\ UNCHANGED <<kind, vocab, parts, loading, queue, unloaded>>

\* The inference itself raises.
WorkerRaises(j) ==
  /\ j \in DOMAIN jobs /\ Stage(j, "running", "raising")
  /\ UNCHANGED <<kind, vocab, parts, loading, queue, unloaded>>

\* The inference never ends; nothing interrupts a thread.
WorkerHangs(j) ==
  /\ j \in DOMAIN jobs /\ Cardinality(Hung) < MaxHung
  /\ Stage(j, "running", "hung")
  /\ UNCHANGED <<kind, vocab, parts, loading, queue, unloaded>>

-----------------------------------------------------------------------------
(* predict, after the wait                                                 *)

Outcome(j, how) ==
  /\ jobs[j].outcome = "none"
  /\ jobs' = [jobs EXCEPT ![j].outcome = how]

Resumes(c, j, k, how) ==
  /\ j \in Waiting(c) /\ kind[jobs[j].engine] = k
  /\ jobs[j].stage = "computed"
  /\ Outcome(j, how)
  /\ UNCHANGED <<kind, vocab, parts, loading, queue, unloaded>>

WhisperReturns(c, j) == Resumes(c, j, "asr", "words")
TslReturns(c, j) == Resumes(c, j, "tsl", "words")
GlossReturns(c, j) == Resumes(c, j, "gloss", "words")

\* The lip-reader decodes its answer here: the number of the class is the text where
\* there is no vocabulary, or none of its words is this class.
LipTexts(e) ==
  IF "companion" \notin parts[e] THEN {"number"}
  ELSE IF vocab = "whole" THEN {"words"}
  ELSE {"words", "number"}

LipReturns(c, j) ==
  j \in DOMAIN jobs /\ \E how \in LipTexts(jobs[j].engine) : Resumes(c, j, "lip", how)

\* The worker's exception is raised again in the caller.
RaisesAgain(c, j) ==
  /\ j \in Waiting(c)
  /\ jobs[j].stage \in {"broken", "raising"}
  /\ Outcome(j, IF jobs[j].stage = "broken" THEN "broken" ELSE "raised")
  /\ UNCHANGED <<kind, vocab, parts, loading, queue, unloaded>>

\* The future of the job is cancelled: a job that still queues will not run.
BugLeftInQueue(j, how) ==
  /\ Outcome(j, how)
  /\ UNCHANGED <<kind, vocab, parts, loading, queue, unloaded>>

GivesUp(j, how) ==
  /\ Outcome(j, how)
  /\ \/ \E i \in DOMAIN queue :
          /\ queue[i] = CallTask(j)
          /\ queue' = SubSeq(queue, 1, i - 1) \o SubSeq(queue, i + 1, Len(queue))
     \/ (\A i \in DOMAIN queue : queue[i] # CallTask(j)) /\ UNCHANGED queue
  /\ UNCHANGED <<kind, vocab, parts, loading, unloaded>>

\* wait_for's time is up: InferenceTimeoutError.
BugTimedFromStart(c, j) ==
  /\ j \in Waiting(c) /\ jobs[j].stage = "running"
  /\ GivesUp(j, "timeout")

TimesOut(c, j) ==
  /\ j \in Waiting(c) /\ jobs[j].stage \in {"queued", "running", "hung"}
  /\ GivesUp(j, "timeout")

\* The caller's own task is cancelled, as receive_loop cancels its watchdog.
Cancelled(c, j) == j \in Waiting(c) /\ GivesUp(j, "cancelled")

Returns(c, j) ==
  \/ WhisperReturns(c, j) \/ TslReturns(c, j) \/ GlossReturns(c, j) \/ LipReturns(c, j)
  \/ RaisesAgain(c, j)
  \/ TimesOut(c, j)

LoadEnds(e) ==
  \/ WhisperLoaded(e) \/ TslLoaded(e) \/ GlossLoaded(e)
  \/ LipWeightsLoaded(e) \/ LipVocabLoaded(e)
  \/ LoadRaises(e)

Next ==
  \/ \E e \in Engines : LoadStarts(e) \/ LoadEnds(e) \/ Unload(e)
  \/ \E c \in Callers, e \in Engines :
       WhisperPredict(c, e) \/ LipPredict(c, e) \/ TslPredict(c, e) \/ GlossPredict(c, e)
  \/ WorkerTakes
  \/ \E j \in 1 .. MaxCalls : WorkerEnds(j) \/ WorkerRaises(j) \/ WorkerHangs(j)
  \/ \E c \in Callers, j \in 1 .. MaxCalls : Returns(c, j) \/ Cancelled(c, j)

Spec == Init /\ [][Next]_vars

\* Free workers serve the queue, files are read, an inference ends (as the ones do
\* that do not hang), and the event loop runs what is ready or has timed out.
LiveSpec ==
  /\ Spec
  /\ WF_vars(WorkerTakes)
  /\ \A e \in Engines : WF_vars(LoadEnds(e))
  /\ \A j \in 1 .. MaxCalls : WF_vars(WorkerEnds(j))
  /\ \A j \in 1 .. MaxCalls : WF_vars(\E c \in Callers : Returns(c, j))

-----------------------------------------------------------------------------
(* Properties                                                              *)

Jobs ==
  [engine : Engines, caller : Callers,
   stage : {"gone", "queued", "running", "hung", "computed", "broken", "raising"},
   outcome : {"none", "empty", "words", "number", "not loaded", "raised", "broken",
              "timeout", "cancelled"}]

\* Every variable has its type, and no more workers are busy than there are.
TypeOK ==
  /\ kind \in [Engines -> Kinds] /\ vocab \in {"none", "short", "whole"}
  /\ parts \in [Engines -> SUBSET Attributes]
  /\ loading \in [Engines -> {"no", "queued", "running", "vocab queued",
                              "vocab running", "yes", "failed"}]
  /\ jobs \in Seq(Jobs) /\ Len(jobs) <= MaxCalls
  /\ queue \in Seq({CallTask(j) : j \in 1 .. MaxCalls} \cup {LoadTask(e) : e \in Engines})
  /\ unloaded \subseteq Engines
  /\ Busy <= Workers

\* The engines' checks against half-loaded state are enough until the engine is
\* unloaded: only then is a call refused, does a worker meet None, or does a lip-reader
\* whose vocabulary names every class answer with a number all the same
\* (whisper_asr_engine.py:101, 270, lip_reading_engine.py:335).
FailsOnlyUnloaded ==
  \A j \in DOMAIN jobs :
    \/ jobs[j].outcome \in {"not loaded", "broken"}
    \/ jobs[j].outcome = "number" /\ vocab = "whole"
    => jobs[j].engine \in unloaded

\* No worker will be spent on a call that was given up before it started: what
\* queues has a caller that waits (whisper_asr_engine.py:125).
QueuedIsWanted ==
  \A j \in DOMAIN jobs :
    (\E i \in DOMAIN queue : queue[i] = CallTask(j)) =>
      jobs[j].stage = "queued" /\ jobs[j].outcome = "none"

\* Every call of predict returns or raises, even one whose inference hangs or
\* queues behind one that does (timeout_ms, "maximum wall-clock time").
CallsReturn ==
  \A j \in 1 .. MaxCalls : j \in Unanswered ~> j \notin Unanswered

\* load_model has no timeout and queues with the inferences of all sessions: it still
\* ends, as inferences that were given up hand their workers back
\* (whisper_asr_engine.py:77).
LoadsEnd ==
  \A e \in Engines : loading[e] = "queued" ~> loading[e] \in {"yes", "failed"}

\* interfaces.py:81 says that unload_model will "Release model weights and free GPU
\* memory": no worker uses an engine's weights once it is unloaded.
UnloadFrees == \A j \in Running : jobs[j].engine \notin unloaded
=============================================================================
