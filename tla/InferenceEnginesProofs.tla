------------------------- MODULE InferenceEnginesProofs ------------------------
(***************************************************************************)
(* However many workers, callers and engines there are: an engine fails    *)
(* its callers only once it has been unloaded, the executor's queue holds  *)
(* only what is still wanted, and no more workers are busy than there are. *)
(***************************************************************************)
EXTENDS InferenceEngines, SequenceTheorems, FiniteSetTheorems, TLAPS

LoadStages ==
  {"no", "queued", "running", "vocab queued", "vocab running", "yes", "failed"}

TypeInv ==
  /\ kind \in [Engines -> Kinds] /\ vocab \in {"none", "short", "whole"}
  /\ parts \in [Engines -> SUBSET Attributes]
  /\ loading \in [Engines -> LoadStages]
  /\ jobs \in Seq(Jobs)
  /\ unloaded \subseteq Engines

\* What a loaded engine has: a lip-reader's vocabulary is optional.
Whole(e) == IF kind[e] = "lip" /\ vocab = "none" THEN {"model"} ELSE Attributes

\* Until it is unloaded, a loaded engine is whole, and the lip-reader that waits for
\* its vocabulary has its model.
WholeInv ==
  \A e \in Engines \ unloaded :
    /\ loading[e] = "yes" => parts[e] = Whole(e)
    /\ loading[e] \in {"vocab queued", "vocab running"} =>
         kind[e] = "lip" /\ vocab # "none" /\ "model" \in parts[e]

\* The outcomes for want of an attribute that a loaded engine has.
Wrong == {"not loaded", "broken"} \cup (IF vocab = "whole" THEN {"number"} ELSE {})

\* Calls are of loaded engines, and what went wrong for want of an attribute did so
\* after the engine was unloaded.
Sound(j) ==
  /\ loading[jobs[j].engine] = "yes"
  /\ jobs[j].stage = "broken" => jobs[j].engine \in unloaded
  /\ jobs[j].outcome \in Wrong => jobs[j].engine \in unloaded

JobInv == \A j \in DOMAIN jobs : Sound(j)

FailInv == TypeInv /\ WholeInv /\ JobInv

-----------------------------------------------------------------------------

\* A call is a job of an engine.
LEMMA JobTyped ==
  ASSUME jobs \in Seq(Jobs), NEW j \in DOMAIN jobs
  PROVE  jobs[j] \in Jobs /\ jobs[j].engine \in Engines
<1>1. jobs[j] \in Jobs
  OBVIOUS
<1> QED
  BY <1>1 DEF Jobs

\* A job whose stage or outcome changes stays a job, and the others do not change.
LEMMA JobChanged ==
  ASSUME jobs \in Seq(Jobs), NEW j \in DOMAIN jobs, NEW job \in Jobs,
         jobs' = [jobs EXCEPT ![j] = job]
  PROVE  /\ jobs' \in Seq(Jobs)
         /\ DOMAIN jobs' = DOMAIN jobs
         /\ jobs'[j] = job
         /\ \A i \in DOMAIN jobs : i # j => jobs'[i] = jobs[i]
  OBVIOUS

\* A call that is made adds one job.
LEMMA JobAdded ==
  ASSUME jobs \in Seq(Jobs), NEW job \in Jobs, jobs' = Append(jobs, job)
  PROVE  /\ jobs' \in Seq(Jobs)
         /\ \A i \in DOMAIN jobs' : (i \in DOMAIN jobs /\ jobs'[i] = jobs[i]) \/ jobs'[i] = job
  OBVIOUS

\* At the start nothing is loaded and nobody has called.
LEMMA InitFail == Init => FailInv
<1> SUFFICES ASSUME Init PROVE FailInv
  OBVIOUS
<1>1. TypeInv
  BY PoolAssumption DEF Init, TypeInv, LoadStages, Attributes
<1>2. WholeInv
  BY DEF Init, WholeInv
<1>3. JobInv
  BY DEF Init, JobInv
<1> QED
  BY <1>1, <1>2, <1>3 DEF FailInv

-----------------------------------------------------------------------------
(* The jobs                                                                *)

\* A step that leaves the jobs alone, unloads none again and keeps what is loaded.
LEMMA JobsKept ==
  ASSUME FailInv, UNCHANGED <<vocab, jobs>>, unloaded \subseteq unloaded',
         \A e \in Engines : loading[e] = "yes" => loading'[e] = "yes"
  PROVE  JobInv'
<1> SUFFICES ASSUME NEW j \in DOMAIN jobs PROVE Sound(j)'
  BY DEF JobInv
<1>1. jobs[j].engine \in Engines
  BY JobTyped DEF FailInv, TypeInv
<1>2. Sound(j)
  BY DEF FailInv, JobInv
<1> QED
  BY <1>1, <1>2 DEF Sound, Wrong

\* A job that changes its stage or its outcome, and goes wrong only if its engine
\* was unloaded.
LEMMA JobMoves ==
  ASSUME FailInv, UNCHANGED <<vocab, loading, unloaded>>,
         NEW j \in DOMAIN jobs, NEW job \in Jobs,
         jobs' = [jobs EXCEPT ![j] = job],
         job.engine = jobs[j].engine,
         job.stage = "broken" => job.engine \in unloaded,
         job.outcome \in Wrong => job.engine \in unloaded
  PROVE  jobs' \in Seq(Jobs) /\ JobInv'
<1>1. jobs \in Seq(Jobs) /\ JobInv
  BY DEF FailInv, TypeInv
<1>2. /\ jobs' \in Seq(Jobs) /\ DOMAIN jobs' = DOMAIN jobs /\ jobs'[j] = job
      /\ \A i \in DOMAIN jobs : i # j => jobs'[i] = jobs[i]
  BY <1>1, JobChanged
<1>3. ASSUME NEW i \in DOMAIN jobs PROVE Sound(i)'
  <2>1. Sound(i) /\ Sound(j)
    BY <1>1 DEF JobInv
  <2>2. CASE i = j
    BY <2>1, <2>2, <1>2 DEF Sound, Wrong
  <2>3. CASE i # j
    BY <2>1, <2>3, <1>2 DEF Sound, Wrong
  <2> QED
    BY <2>2, <2>3
<1> QED
  BY <1>2, <1>3 DEF JobInv

\* A new call of a loaded engine, refused only if the engine was unloaded.
LEMMA JobStarts ==
  ASSUME FailInv, UNCHANGED <<vocab, loading, unloaded>>,
         NEW job \in Jobs, jobs' = Append(jobs, job),
         loading[job.engine] = "yes", job.stage # "broken",
         job.outcome \in Wrong => job.engine \in unloaded
  PROVE  jobs' \in Seq(Jobs) /\ JobInv'
<1>1. jobs \in Seq(Jobs) /\ JobInv
  BY DEF FailInv, TypeInv
<1>2. /\ jobs' \in Seq(Jobs)
      /\ \A i \in DOMAIN jobs' : (i \in DOMAIN jobs /\ jobs'[i] = jobs[i]) \/ jobs'[i] = job
  BY <1>1, JobAdded
<1>3. ASSUME NEW i \in DOMAIN jobs' PROVE Sound(i)'
  <2>1. CASE i \in DOMAIN jobs /\ jobs'[i] = jobs[i]
    BY <1>1, <2>1 DEF JobInv, Sound, Wrong
  <2>2. CASE jobs'[i] = job
    BY <2>2 DEF Sound, Wrong
  <2> QED
    BY <1>2, <2>1, <2>2
<1> QED
  BY <1>2, <1>3 DEF JobInv

\* What follows of a job while the invariant holds.
LEMMA JobFacts ==
  ASSUME FailInv, NEW j \in DOMAIN jobs
  PROVE  /\ jobs[j] \in Jobs /\ jobs[j].engine \in Engines
         /\ parts[jobs[j].engine] # Whole(jobs[j].engine) => jobs[j].engine \in unloaded
         /\ jobs[j].outcome \in Wrong
              => jobs[j].engine \in unloaded
         /\ jobs[j].stage = "broken" => jobs[j].engine \in unloaded
<1>1. jobs[j] \in Jobs /\ jobs[j].engine \in Engines
  BY JobTyped DEF FailInv, TypeInv
<1>2. Sound(j)
  BY DEF FailInv, JobInv
<1>3. loading[jobs[j].engine] = "yes"
  BY <1>2 DEF Sound, Wrong
<1>4. parts[jobs[j].engine] # Whole(jobs[j].engine) => jobs[j].engine \in unloaded
  BY <1>1, <1>3 DEF FailInv, WholeInv
<1> QED
  BY <1>1, <1>2, <1>4 DEF Sound, Wrong

\* Whatever an engine's code reads on the worker is what a loaded engine has.
LEMMA ReadsWhole ==
  ASSUME NEW e \in Engines, kind[e] \in Kinds
  PROVE  Reads[kind[e]].first \subseteq Whole(e) /\ Reads[kind[e]].last \subseteq Whole(e)
BY DEF Kinds, Reads, AsrReads, LipReads, TslReads, GlossReads, Attributes, Whole

-----------------------------------------------------------------------------
(* The actions                                                             *)

\* Loading and unloading keep the invariant.
LEMMA EnginesKeep ==
  ASSUME FailInv, NEW e \in Engines, LoadStarts(e) \/ LoadEnds(e) \/ Unload(e)
  PROVE  FailInv'
<1>1. TypeInv /\ WholeInv
  BY DEF FailInv
<1>2. CASE LoadStarts(e)
  <2>1. TypeInv'
    BY <1>1, <1>2 DEF LoadStarts, TypeInv, LoadStages
  <2>2. WholeInv'
    BY <1>1, <1>2 DEF LoadStarts, TypeInv, WholeInv, Whole
  <2>3. JobInv'
    BY <1>1, <1>2, JobsKept DEF LoadStarts, TypeInv
  <2> QED
    BY <2>1, <2>2, <2>3 DEF FailInv
<1>3. ASSUME NEW k \in {"asr", "tsl", "gloss"}, Loaded(e, k) PROVE FailInv'
  <2>1. TypeInv'
    BY <1>1, <1>3 DEF Loaded, TypeInv, LoadStages
  <2>2. WholeInv'
    BY <1>1, <1>3 DEF Loaded, TypeInv, WholeInv, Whole
  <2>3. JobInv'
    BY <1>1, <1>3, JobsKept DEF Loaded, TypeInv
  <2> QED
    BY <2>1, <2>2, <2>3 DEF FailInv
<1>4. CASE LipWeightsLoaded(e)
  <2>1. TypeInv'
    BY <1>1, <1>4 DEF LipWeightsLoaded, TypeInv, LoadStages, Attributes
  <2>2. WholeInv'
    BY <1>1, <1>4 DEF LipWeightsLoaded, TypeInv, WholeInv, Whole
  <2>3. JobInv'
    BY <1>1, <1>4, JobsKept DEF LipWeightsLoaded, TypeInv
  <2> QED
    BY <2>1, <2>2, <2>3 DEF FailInv
<1>5. CASE LipVocabLoaded(e)
  <2>1. TypeInv'
    BY <1>1, <1>5 DEF LipVocabLoaded, TypeInv, LoadStages, Attributes
  <2>2. WholeInv'
    BY <1>1, <1>5 DEF LipVocabLoaded, TypeInv, WholeInv, Whole, Attributes
  <2>3. JobInv'
    BY <1>1, <1>5, JobsKept DEF LipVocabLoaded, TypeInv
  <2> QED
    BY <2>1, <2>2, <2>3 DEF FailInv
<1>6. CASE LoadRaises(e)
  <2>1. TypeInv'
    BY <1>1, <1>6 DEF LoadRaises, TypeInv, LoadStages
  <2>2. WholeInv'
    BY <1>1, <1>6 DEF LoadRaises, TypeInv, WholeInv, Whole
  <2>3. JobInv'
    BY <1>1, <1>6, JobsKept DEF LoadRaises, Loading, TypeInv
  <2> QED
    BY <2>1, <2>2, <2>3 DEF FailInv
<1>7. CASE Unload(e)
  <2>1. TypeInv'
    BY <1>1, <1>7 DEF Unload, TypeInv
  <2>2. WholeInv'
    BY <1>1, <1>7 DEF Unload, TypeInv, WholeInv, Whole
  <2>3. JobInv'
    BY <1>1, <1>7, JobsKept DEF Unload, TypeInv
  <2> QED
    BY <2>1, <2>2, <2>3 DEF FailInv
<1> QED
  BY <1>2, <1>3, <1>4, <1>5, <1>6, <1>7
  DEF LoadEnds, WhisperLoaded, TslLoaded, GlossLoaded

\* Calls of predict keep the invariant.
LEMMA CallsKeep ==
  ASSUME FailInv, NEW c \in Callers, NEW e \in Engines,
         \/ WhisperPredict(c, e) \/ LipPredict(c, e)
         \/ TslPredict(c, e) \/ GlossPredict(c, e)
  PROVE  FailInv'
<1>1. /\ TypeInv /\ WholeInv
      /\ loading[e] = "yes" /\ UNCHANGED <<kind, vocab, parts, loading, unloaded>>
  BY DEF FailInv, WhisperPredict, LipPredict, TslPredict, GlossPredict, Calls
<1>2. \E checked \in SUBSET Whole(e) :
        Predicts(c, e, checked, {"empty", "raised"})
  <2>1. {"model"} \in SUBSET Whole(e) /\ (kind[e] # "lip" => Attributes \in SUBSET Whole(e))
    BY DEF Attributes, Whole
  <2>2. ASSUME NEW checked \in SUBSET Whole(e), NEW early \in SUBSET {"empty", "raised"},
               Predicts(c, e, checked, early)
        PROVE  Predicts(c, e, checked, {"empty", "raised"})
    BY <2>2 DEF Predicts
  <2>3. CASE WhisperPredict(c, e)
    BY <2>1, <2>3 DEF WhisperPredict, Calls
  <2>4. CASE LipPredict(c, e) \/ TslPredict(c, e)
    <3>1. Predicts(c, e, {"model"}, {"raised"})
      BY <2>4 DEF LipPredict, TslPredict
    <3>2. Predicts(c, e, {"model"}, {"empty", "raised"})
      BY <2>1, <2>2, <3>1
    <3> QED
      BY <2>1, <3>2
  <2>5. CASE GlossPredict(c, e)
    <3>1. Predicts(c, e, Attributes, {})
      BY <2>5 DEF GlossPredict
    <3>2. Attributes \in SUBSET Whole(e)
      BY <2>1, <2>5 DEF GlossPredict, Calls
    <3>3. Predicts(c, e, Attributes, {"empty", "raised"})
      BY <2>2, <3>1, <3>2
    <3> QED
      BY <3>2, <3>3
  <2> QED
    BY <2>3, <2>4, <2>5
<1>3. \E job \in Jobs :
        /\ jobs' = Append(jobs, job) /\ job.engine = e /\ job.stage # "broken"
        /\ job.outcome \in Wrong => parts[e] # Whole(e)
  <2> DEFINE Made(stage, how) ==
        [engine |-> e, caller |-> c, stage |-> stage, outcome |-> how]
  <2>1. /\ Made("queued", "none") \in Jobs
        /\ \A how \in {"not loaded", "empty", "raised"} : Made("gone", how) \in Jobs
    BY DEF Jobs
  <2>2. PICK checked \in SUBSET Whole(e) : Predicts(c, e, checked, {"empty", "raised"})
    BY <1>2
  <2>3. \/ jobs' = Append(jobs, Made("gone", "not loaded")) /\ parts[e] # Whole(e)
        \/ \E how \in {"empty", "raised"} : jobs' = Append(jobs, Made("gone", how))
        \/ jobs' = Append(jobs, Made("queued", "none"))
    BY <2>2 DEF Predicts, EndsAtOnce, Submits
  <2> QED
    BY <2>1, <2>3 DEF Wrong
<1>4. PICK job \in Jobs :
        /\ jobs' = Append(jobs, job) /\ job.engine = e /\ job.stage # "broken"
        /\ job.outcome \in Wrong => parts[e] # Whole(e)
  BY <1>3
<1>5. job.outcome \in Wrong => e \in unloaded
  BY <1>1, <1>4 DEF WholeInv
<1>6. jobs' \in Seq(Jobs) /\ JobInv'
  BY <1>1, <1>4, <1>5, JobStarts
<1>7. TypeInv' /\ WholeInv'
  BY <1>1, <1>6 DEF TypeInv, WholeInv, Whole
<1> QED
  BY <1>6, <1>7 DEF FailInv

\* A job that only changes its stage or its outcome keeps the invariant.
LEMMA MovesKeep ==
  ASSUME FailInv, UNCHANGED <<kind, vocab, parts, loading, unloaded>>,
         NEW j \in DOMAIN jobs, NEW job \in Jobs,
         jobs' = [jobs EXCEPT ![j] = job], job.engine = jobs[j].engine,
         job.stage = "broken" => job.engine \in unloaded,
         job.outcome \in Wrong => job.engine \in unloaded
  PROVE  FailInv'
<1>1. jobs' \in Seq(Jobs) /\ JobInv'
  BY JobMoves
<1>2. TypeInv' /\ WholeInv'
  BY <1>1 DEF FailInv, TypeInv, WholeInv, Whole
<1> QED
  BY <1>1, <1>2 DEF FailInv

\* A change of the stage keeps the invariant if it breaks only calls of engines that
\* lack an attribute.
LEMMA StagesKeep ==
  ASSUME FailInv, UNCHANGED <<kind, vocab, parts, loading, unloaded>>,
         NEW j \in DOMAIN jobs, NEW from,
         NEW to \in {"running", "hung", "computed", "broken", "raising"},
         Stage(j, from, to),
         to = "broken" => parts[jobs[j].engine] # Whole(jobs[j].engine)
  PROVE  FailInv'
<1> DEFINE job == [jobs[j] EXCEPT !.stage = to]
<1>1. /\ jobs[j] \in Jobs
      /\ parts[jobs[j].engine] # Whole(jobs[j].engine) => jobs[j].engine \in unloaded
      /\ jobs[j].outcome \in Wrong
           => jobs[j].engine \in unloaded
  BY JobFacts
<1>2. /\ job \in Jobs /\ job.engine = jobs[j].engine
      /\ job.stage = to /\ job.outcome = jobs[j].outcome
  BY <1>1 DEF Jobs
<1>3. jobs' = [jobs EXCEPT ![j] = job]
  BY DEF Stage
<1> QED
  BY <1>1, <1>2, <1>3, MovesKeep

\* A change of the outcome keeps the invariant if it goes wrong for want of an
\* attribute only when the engine was unloaded.
LEMMA OutcomesKeep ==
  ASSUME FailInv, UNCHANGED <<kind, vocab, parts, loading, unloaded>>,
         NEW j \in DOMAIN jobs,
         NEW how \in {"words", "number", "broken", "raised", "timeout", "cancelled"},
         Outcome(j, how),
         how \in Wrong => jobs[j].engine \in unloaded
  PROVE  FailInv'
<1> DEFINE job == [jobs[j] EXCEPT !.outcome = how]
<1>1. /\ jobs[j] \in Jobs
      /\ jobs[j].stage = "broken" => jobs[j].engine \in unloaded
  BY JobFacts
<1>2. /\ job \in Jobs /\ job.engine = jobs[j].engine
      /\ job.stage = jobs[j].stage /\ job.outcome = how
  BY <1>1 DEF Jobs
<1>3. jobs' = [jobs EXCEPT ![j] = job]
  BY DEF Outcome
<1> QED
  BY <1>1, <1>2, <1>3, MovesKeep

\* The executor's steps keep the invariant.
LEMMA WorkersKeep ==
  ASSUME FailInv,
         \/ WorkerTakes
         \/ \E j \in 1 .. MaxCalls : WorkerEnds(j) \/ WorkerRaises(j) \/ WorkerHangs(j)
  PROVE  FailInv'
<1>1. ASSUME NEW j \in DOMAIN jobs
      PROVE  /\ Reads[kind[jobs[j].engine]].first \subseteq Whole(jobs[j].engine)
             /\ Reads[kind[jobs[j].engine]].last \subseteq Whole(jobs[j].engine)
  <2>1. jobs[j].engine \in Engines
    BY JobFacts
  <2>2. kind[jobs[j].engine] \in Kinds
    BY <2>1 DEF FailInv, TypeInv
  <2> QED
    BY <2>1, <2>2, ReadsWhole
<1>2. ASSUME WorkerTakes, NEW j \in DOMAIN jobs, TakesCall(j) PROVE FailInv'
  <2> DEFINE to == IF Reads[kind[jobs[j].engine]].first \subseteq parts[jobs[j].engine]
                   THEN "running" ELSE "broken"
  <2>1. UNCHANGED <<kind, vocab, parts, loading, unloaded>> /\ Stage(j, "queued", to)
    BY <1>2 DEF WorkerTakes, TakesCall
  <2>2. to \in {"running", "broken"} /\ (to = "broken" => parts[jobs[j].engine] # Whole(jobs[j].engine))
    BY <1>1
  <2> HIDE DEF to
  <2> QED
    BY <2>1, <2>2, StagesKeep
<1>3. ASSUME WorkerTakes, NEW e \in Engines, TakesLoad(e) PROVE FailInv'
  <2>1. UNCHANGED <<kind, vocab, parts, unloaded, jobs>> /\ TypeInv /\ WholeInv
    BY <1>3 DEF WorkerTakes, TakesLoad, FailInv
  <2>2. TypeInv'
    BY <1>3, <2>1 DEF TakesLoad, TypeInv, LoadStages
  <2>3. WholeInv'
    BY <1>3, <2>1 DEF TakesLoad, TypeInv, WholeInv, Whole
  <2>4. JobInv'
    BY <1>3, <2>1, JobsKept DEF TakesLoad, TypeInv
  <2> QED
    BY <2>2, <2>3, <2>4 DEF FailInv
<1>4. ASSUME NEW j, WorkerEnds(j) PROVE FailInv'
  <2> DEFINE to == IF Reads[kind[jobs[j].engine]].last \subseteq parts[jobs[j].engine]
                   THEN "computed" ELSE "broken"
  <2>1. /\ j \in DOMAIN jobs /\ UNCHANGED <<kind, vocab, parts, loading, unloaded>>
        /\ Stage(j, "running", to)
    BY <1>4 DEF WorkerEnds
  <2>2. to \in {"computed", "broken"} /\ (to = "broken" => parts[jobs[j].engine] # Whole(jobs[j].engine))
    BY <1>1, <2>1
  <2> HIDE DEF to
  <2> QED
    BY <2>1, <2>2, StagesKeep
<1>5. ASSUME NEW j, WorkerRaises(j) PROVE FailInv'
  BY <1>5, StagesKeep DEF WorkerRaises
<1>6. ASSUME NEW j, WorkerHangs(j) PROVE FailInv'
  BY <1>6, StagesKeep DEF WorkerHangs
<1>7. CASE WorkerTakes
  BY <1>2, <1>3, <1>7 DEF WorkerTakes
<1> QED
  BY <1>4, <1>5, <1>6, <1>7

\* The ends of predict keep the invariant.
LEMMA ReturnsKeep ==
  ASSUME FailInv, NEW c \in Callers, NEW j, Returns(c, j) \/ Cancelled(c, j)
  PROVE  FailInv'
<1>1. CASE WhisperReturns(c, j) \/ TslReturns(c, j) \/ GlossReturns(c, j)
  <2>1. /\ j \in DOMAIN jobs /\ UNCHANGED <<kind, vocab, parts, loading, unloaded>>
        /\ Outcome(j, "words")
    BY <1>1 DEF WhisperReturns, TslReturns, GlossReturns, Resumes, Waiting, Unanswered
  <2> QED
    BY <2>1, OutcomesKeep DEF Wrong
<1>2. CASE LipReturns(c, j)
  <2>1. PICK how \in LipTexts(jobs[j].engine) :
          /\ j \in DOMAIN jobs /\ UNCHANGED <<kind, vocab, parts, loading, unloaded>>
          /\ Outcome(j, how)
    BY <1>2 DEF LipReturns, Resumes
  <2>2. /\ how \in {"words", "number"}
        /\ how = "number" /\ vocab = "whole" =>
             parts[jobs[j].engine] # Whole(jobs[j].engine)
    BY DEF LipTexts, Whole, Attributes
  <2>3. parts[jobs[j].engine] # Whole(jobs[j].engine) => jobs[j].engine \in unloaded
    BY <2>1, JobFacts
  <2> QED
    BY <2>1, <2>2, <2>3, OutcomesKeep DEF Wrong
<1>3. CASE RaisesAgain(c, j)
  <2> DEFINE how == IF jobs[j].stage = "broken" THEN "broken" ELSE "raised"
  <2>1. /\ j \in DOMAIN jobs /\ UNCHANGED <<kind, vocab, parts, loading, unloaded>>
        /\ Outcome(j, how)
    BY <1>3 DEF RaisesAgain, Waiting, Unanswered
  <2>2. how \in {"broken", "raised"} /\ (how = "broken" => jobs[j].stage = "broken")
    OBVIOUS
  <2>3. jobs[j].stage = "broken" => jobs[j].engine \in unloaded
    BY <2>1, JobFacts
  <2> HIDE DEF how
  <2> QED
    BY <2>1, <2>2, <2>3, OutcomesKeep DEF Wrong
<1>4. CASE TimesOut(c, j) \/ Cancelled(c, j)
  <2>1. PICK how \in {"timeout", "cancelled"} :
          /\ j \in DOMAIN jobs /\ UNCHANGED <<kind, vocab, parts, loading, unloaded>>
          /\ Outcome(j, how)
    BY <1>4 DEF TimesOut, Cancelled, GivesUp, Waiting, Unanswered
  <2> QED
    BY <2>1, OutcomesKeep DEF Wrong
<1> QED
  BY <1>1, <1>2, <1>3, <1>4 DEF Returns

-----------------------------------------------------------------------------

\* Every step keeps the invariant.
LEMMA FailStep == FailInv /\ [Next]_vars => FailInv'
<1> SUFFICES ASSUME FailInv, [Next]_vars PROVE FailInv'
  OBVIOUS
<1>1. CASE Next
  BY <1>1, EnginesKeep, CallsKeep, WorkersKeep, ReturnsKeep DEF Next
<1>2. CASE UNCHANGED vars
  BY <1>2 DEF vars, FailInv, TypeInv, WholeInv, Whole, JobInv, Sound, Wrong
<1> QED
  BY <1>1, <1>2

\* An engine refuses a call, or breaks under it, only once it has been unloaded; and
\* only then does a lip-reader answer with a class number, if its vocabulary names
\* every class (whisper_asr_engine.py:101, 270, lip_reading_engine.py:335).
THEOREM FailuresAreOfUnloaded == Spec => []FailsOnlyUnloaded
<1>1. FailInv => FailsOnlyUnloaded
  BY DEF FailInv, JobInv, Sound, Wrong, FailsOnlyUnloaded
<1> QED
  BY InitFail, FailStep, <1>1, PTL DEF Spec

-----------------------------------------------------------------------------
(* The queue and the workers                                               *)

Tasks == {CallTask(j) : j \in 1 .. MaxCalls} \cup {LoadTask(e) : e \in Engines}

\* A task that somebody waits for: a call not yet begun nor given up, or a load.
Wanted(t) ==
  \/ \E j \in DOMAIN jobs :
       t = CallTask(j) /\ jobs[j].stage = "queued" /\ jobs[j].outcome = "none"
  \/ \E e \in Engines : t = LoadTask(e) /\ loading[e] \in {"queued", "vocab queued"}

Distinct(q) == \A i, k \in DOMAIN q : q[i] = q[k] => i = k

\* The queue holds wanted tasks, each once: so the worker that takes a task, or the
\* caller that gives it up, leaves none behind.
QueueInv ==
  /\ queue \in Seq(Tasks)
  /\ \A i \in DOMAIN queue : Wanted(queue[i])
  /\ Distinct(queue)

BusyInv ==
  /\ IsFiniteSet(Running) /\ IsFiniteSet(Loading)
  /\ Busy <= Workers

PoolInv == FailInv /\ Len(jobs) <= MaxCalls /\ QueueInv /\ BusyInv

\* A queue without its task at place p.
Cut(q, p) == SubSeq(q, 1, p - 1) \o SubSeq(q, p + 1, Len(q))

\* The tasks of q are tasks of the queue, and task is not among them.
Shorter(q, task) ==
  /\ q \in Seq(Tasks) /\ Distinct(q)
  /\ \A i \in DOMAIN q : q[i] # task /\ \E k \in DOMAIN queue : q[i] = queue[k]

-----------------------------------------------------------------------------

\* A task that was not in the queue joins it.
LEMMA TaskJoins ==
  ASSUME QueueInv, NEW task \in Tasks, \A i \in DOMAIN queue : queue[i] # task
  PROVE  LET q == Append(queue, task) IN
         /\ q \in Seq(Tasks) /\ Distinct(q)
         /\ \A i \in DOMAIN q : q[i] = task \/ \E k \in DOMAIN queue : q[i] = queue[k]
<1> DEFINE q == Append(queue, task)
<1>1. queue \in Seq(Tasks) /\ Distinct(queue)
  BY DEF QueueInv
<1>2. /\ Len(queue) \in Nat /\ DOMAIN queue = 1 .. Len(queue)
      /\ q \in Seq(Tasks) /\ Len(q) = Len(queue) + 1
      /\ \A i \in 1 .. Len(queue) : q[i] = queue[i]
      /\ q[Len(queue) + 1] = task
  BY <1>1, LenProperties, AppendProperties
<1>3. DOMAIN q = 1 .. Len(queue) + 1
  BY <1>2, LenProperties
<1> HIDE DEF q
<1>4. \A i \in DOMAIN q : i \in DOMAIN queue \/ i = Len(queue) + 1
  BY <1>2, <1>3
<1>5. Distinct(q)
  BY <1>1, <1>2, <1>4 DEF Distinct
<1>6. \A i \in DOMAIN q : q[i] = task \/ \E k \in DOMAIN queue : q[i] = queue[k]
  BY <1>2, <1>4
<1> QED
  BY <1>2, <1>5, <1>6 DEF q

\* The first task leaves the queue.
LEMMA FirstLeaves ==
  ASSUME QueueInv, queue # <<>>
  PROVE  Shorter(Tail(queue), Head(queue))
<1> DEFINE q == Tail(queue)
<1>1. queue \in Seq(Tasks) /\ Distinct(queue)
  BY DEF QueueInv
<1>2. /\ Len(queue) \in Nat \ {0} /\ DOMAIN queue = 1 .. Len(queue)
      /\ Head(queue) = queue[1]
      /\ q \in Seq(Tasks) /\ Len(q) = Len(queue) - 1
      /\ \A i \in 1 .. Len(q) : q[i] = queue[i + 1]
  BY <1>1, LenProperties, EmptySeq, HeadTailProperties
<1>3. DOMAIN q = 1 .. Len(queue) - 1
  BY <1>2, LenProperties
<1> HIDE DEF q
<1>4. \A i \in DOMAIN q : q[i] = queue[i + 1] /\ i + 1 \in DOMAIN queue /\ i + 1 # 1 /\ i \in Nat
  BY <1>2, <1>3
<1>5. 1 \in DOMAIN queue
  BY <1>2
<1>6. Distinct(q)
  BY <1>1, <1>4 DEF Distinct
<1>7. \A i \in DOMAIN q : q[i] # queue[1]
  BY <1>1, <1>4, <1>5 DEF Distinct
<1> QED
  BY <1>2, <1>4, <1>6, <1>7 DEF Shorter, q

\* A task is taken out of the queue.
LEMMA TaskLeaves ==
  ASSUME QueueInv, NEW p \in DOMAIN queue
  PROVE  Shorter(Cut(queue, p), queue[p])
<1> DEFINE q == Cut(queue, p)
           front == SubSeq(queue, 1, p - 1)
           back == SubSeq(queue, p + 1, Len(queue))
           n == Len(queue)
<1>1. queue \in Seq(Tasks) /\ Distinct(queue)
  BY DEF QueueInv
<1>2. /\ n \in Nat /\ DOMAIN queue = 1 .. n /\ p \in 1 .. n
      /\ \A i \in 1 .. n : queue[i] \in Tasks
  BY <1>1, LenProperties, ElementOfSeq
<1> HIDE DEF n
<1>3. /\ front \in Seq(Tasks) /\ Len(front) = p - 1
      /\ \A i \in 1 .. p - 1 : front[i] = queue[i]
  <2>1. 1 \in Int /\ p - 1 \in Int /\ \A i \in 1 .. p - 1 : queue[i] \in Tasks
    BY <1>2
  <2>2. /\ front \in Seq(Tasks)
        /\ Len(front) = IF 1 <= p - 1 THEN p - 1 - 1 + 1 ELSE 0
        /\ \A i \in 1 .. p - 1 - 1 + 1 : front[i] = queue[1 + i - 1]
    BY <2>1, SubSeqProperties
  <2> HIDE DEF front
  <2>3. Len(front) = p - 1
    BY <1>2, <2>2
  <2>4. ASSUME NEW i \in 1 .. p - 1 PROVE front[i] = queue[i]
    <3>1. i \in 1 .. p - 1 - 1 + 1 /\ 1 + i - 1 = i
      BY <1>2
    <3> QED
      BY <2>2, <3>1
  <2> QED
    BY <2>2, <2>3, <2>4
<1>4. /\ back \in Seq(Tasks) /\ Len(back) = n - p
      /\ \A i \in 1 .. n - p : back[i] = queue[i + p]
  <2>1. p + 1 \in Int /\ n \in Int /\ \A i \in p + 1 .. n : queue[i] \in Tasks
    BY <1>2
  <2>2. /\ back \in Seq(Tasks)
        /\ Len(back) = IF p + 1 <= n THEN n - (p + 1) + 1 ELSE 0
        /\ \A i \in 1 .. n - (p + 1) + 1 : back[i] = queue[p + 1 + i - 1]
    BY <2>1, SubSeqProperties DEF n
  <2> HIDE DEF back
  <2>3. Len(back) = n - p
    BY <1>2, <2>2
  <2>4. ASSUME NEW i \in 1 .. n - p PROVE back[i] = queue[i + p]
    <3>1. i \in 1 .. n - (p + 1) + 1 /\ p + 1 + i - 1 = i + p
      BY <1>2
    <3> QED
      BY <2>2, <3>1
  <2> QED
    BY <2>2, <2>3, <2>4
<1>5. q = front \o back
  BY DEF Cut
<1> HIDE DEF q, front, back
<1>6. /\ q \in Seq(Tasks) /\ Len(q) = n - 1
      /\ \A i \in 1 .. n - 1 : q[i] = IF i < p THEN queue[i] ELSE queue[i + 1]
  <2>1. /\ front \o back \in Seq(Tasks)
        /\ Len(front \o back) = Len(front) + Len(back)
        /\ \A i \in 1 .. Len(front) + Len(back) :
             (front \o back)[i] = IF i <= Len(front) THEN front[i] ELSE back[i - Len(front)]
    BY <1>3, <1>4, ConcatProperties
  <2>2. Len(front) + Len(back) = n - 1
    BY <1>2, <1>3, <1>4
  <2>3. ASSUME NEW i \in 1 .. n - 1
        PROVE  q[i] = IF i < p THEN queue[i] ELSE queue[i + 1]
    <3>1. q[i] = IF i <= p - 1 THEN front[i] ELSE back[i - (p - 1)]
      BY <1>3, <1>5, <2>1, <2>2
    <3>2. CASE i < p
      <4>1. i \in 1 .. p - 1 /\ i <= p - 1
        BY <1>2, <3>2
      <4> QED
        BY <1>3, <3>1, <3>2, <4>1
    <3>3. CASE ~(i < p)
      <4>1. i - (p - 1) \in 1 .. n - p /\ ~(i <= p - 1) /\ i - (p - 1) + p = i + 1
        BY <1>2, <3>3
      <4> QED
        BY <1>4, <3>1, <3>3, <4>1
    <3> QED
      BY <3>2, <3>3
  <2> QED
    BY <1>5, <2>1, <2>2, <2>3
<1>7. DOMAIN q = 1 .. n - 1
  BY <1>6, LenProperties
<1> DEFINE from(i) == IF i < p THEN i ELSE i + 1
<1>8. /\ \A i \in DOMAIN q : q[i] = queue[from(i)] /\ from(i) \in DOMAIN queue /\ from(i) # p
      /\ \A i, k \in DOMAIN q : from(i) = from(k) => i = k
  BY <1>2, <1>6, <1>7
<1> HIDE DEF from
<1>9. Distinct(q)
  BY <1>1, <1>8 DEF Distinct
<1>10. \A i \in DOMAIN q : q[i] # queue[p]
  BY <1>1, <1>8 DEF Distinct
<1> QED
  BY <1>6, <1>8, <1>9, <1>10 DEF Shorter, q

-----------------------------------------------------------------------------

\* What is wanted of the queue stays so while every wanted task does.
LEMMA QueueKept ==
  ASSUME QueueInv, queue' = queue,
         \A t \in Tasks : Wanted(t) => Wanted(t)'
  PROVE  QueueInv'
<1>1. \A i \in DOMAIN queue : queue[i] \in Tasks
  BY DEF QueueInv
<1> QED
  BY <1>1 DEF QueueInv, Distinct

\* A task that joins must be new and wanted.
LEMMA QueueGrows ==
  ASSUME QueueInv, NEW task \in Tasks, ~Wanted(task), Wanted(task)',
         queue' = Append(queue, task),
         \A t \in Tasks : Wanted(t) => Wanted(t)'
  PROVE  QueueInv'
<1>1. \A i \in DOMAIN queue : queue[i] \in Tasks /\ Wanted(queue[i]) /\ queue[i] # task
  BY DEF QueueInv
<1>2. PICK q : q = Append(queue, task)
  OBVIOUS
<1>3. /\ q \in Seq(Tasks) /\ Distinct(q)
      /\ \A i \in DOMAIN q : q[i] = task \/ \E k \in DOMAIN queue : q[i] = queue[k]
  BY <1>1, <1>2, TaskJoins
<1>4. \A i \in DOMAIN q : q[i] \in Tasks /\ (Wanted(q[i]) \/ q[i] = task)
  BY <1>1, <1>3
<1>5. ASSUME NEW t \in Tasks, Wanted(t) \/ t = task PROVE Wanted(t)'
  BY <1>5
<1>6. queue' = q
  BY <1>2
<1>7. (\A i \in DOMAIN queue : Wanted(queue[i]))'
  BY <1>4, <1>5, <1>6
<1> QED
  BY <1>3, <1>6, <1>7 DEF QueueInv, Distinct

\* A task that leaves is the only one that need not stay wanted.
LEMMA QueueShrinks ==
  ASSUME QueueInv, NEW task, Shorter(queue', task),
         \A t \in Tasks : Wanted(t) /\ t # task => Wanted(t)'
  PROVE  QueueInv'
<1>1. \A i \in DOMAIN queue : queue[i] \in Tasks /\ Wanted(queue[i])
  BY DEF QueueInv
<1>2. PICK q : q = queue'
  OBVIOUS
<1>3. /\ q \in Seq(Tasks) /\ Distinct(q)
      /\ \A i \in DOMAIN q : q[i] # task /\ \E k \in DOMAIN queue : q[i] = queue[k]
  BY <1>2 DEF Shorter
<1>4. \A i \in DOMAIN q : q[i] \in Tasks /\ Wanted(q[i]) /\ q[i] # task
  BY <1>1, <1>3
<1>5. (\A i \in DOMAIN queue : Wanted(queue[i]))'
  BY <1>2, <1>4
<1> QED
  BY <1>2, <1>3, <1>5 DEF QueueInv, Distinct

\* A job that changes takes only its own task from what is wanted.
LEMMA WantedMoves ==
  ASSUME jobs \in Seq(Jobs), NEW j \in DOMAIN jobs, NEW job \in Jobs,
         jobs' = [jobs EXCEPT ![j] = job], loading' = loading,
         NEW t, Wanted(t), t # CallTask(j)
  PROVE  Wanted(t)'
<1>1. /\ DOMAIN jobs' = DOMAIN jobs
      /\ \A i \in DOMAIN jobs : i # j => jobs'[i] = jobs[i]
  BY JobChanged
<1>2. CASE \E e \in Engines : t = LoadTask(e) /\ loading[e] \in {"queued", "vocab queued"}
  BY <1>2 DEF Wanted, LoadTask
<1>3. CASE \E i \in DOMAIN jobs :
             t = CallTask(i) /\ jobs[i].stage = "queued" /\ jobs[i].outcome = "none"
  <2>1. PICK i \in DOMAIN jobs :
          t = CallTask(i) /\ jobs[i].stage = "queued" /\ jobs[i].outcome = "none"
    BY <1>3
  <2>2. i # j
    BY <2>1
  <2>3. i \in DOMAIN jobs' /\ jobs'[i].stage = "queued" /\ jobs'[i].outcome = "none"
    BY <1>1, <2>1, <2>2
  <2> QED
    BY <2>1, <2>3 DEF Wanted, CallTask
<1> QED
  BY <1>2, <1>3 DEF Wanted

\* Only a call that queues and is waited for is wanted.
LEMMA CallWanted ==
  ASSUME NEW j
  PROVE  Wanted(CallTask(j)) <=>
           j \in DOMAIN jobs /\ jobs[j].stage = "queued" /\ jobs[j].outcome = "none"
<1>1. \A i : CallTask(i) = CallTask(j) <=> i = j
  BY DEF CallTask
<1>2. \A e : CallTask(j) # LoadTask(e)
  BY DEF CallTask, LoadTask
<1> QED
  BY <1>1, <1>2 DEF Wanted

\* Only a load that queues is wanted.
LEMMA LoadWanted ==
  ASSUME NEW e \in Engines
  PROVE  Wanted(LoadTask(e)) <=> loading[e] \in {"queued", "vocab queued"}
<1>1. \A f : LoadTask(f) = LoadTask(e) <=> f = e
  BY DEF LoadTask
<1>2. \A i : CallTask(i) # LoadTask(e)
  BY DEF CallTask, LoadTask
<1> QED
  BY <1>1, <1>2 DEF Wanted

\* A change of one engine's loading takes only its own task from what is wanted.
LEMMA WantedLoads ==
  ASSUME loading \in [Engines -> LoadStages], NEW e \in Engines, NEW stage,
         loading' = [loading EXCEPT ![e] = stage], jobs' = jobs,
         NEW t, Wanted(t), t # LoadTask(e)
  PROVE  Wanted(t)'
<1>1. CASE \E i \in DOMAIN jobs :
             t = CallTask(i) /\ jobs[i].stage = "queued" /\ jobs[i].outcome = "none"
  BY <1>1 DEF Wanted, CallTask
<1>2. CASE \E f \in Engines : t = LoadTask(f) /\ loading[f] \in {"queued", "vocab queued"}
  <2>1. PICK f \in Engines : t = LoadTask(f) /\ loading[f] \in {"queued", "vocab queued"}
    BY <1>2
  <2>2. f # e
    BY <2>1
  <2>3. loading'[f] \in {"queued", "vocab queued"}
    BY <2>1, <2>2
  <2> QED
    BY <2>1, <2>3 DEF Wanted, LoadTask
<1> QED
  BY <1>1, <1>2 DEF Wanted

-----------------------------------------------------------------------------

\* Loading and unloading keep the queue's invariant.
LEMMA EnginesQueue ==
  ASSUME FailInv, QueueInv, NEW e \in Engines, LoadStarts(e) \/ LoadEnds(e) \/ Unload(e)
  PROVE  QueueInv'
<1>1. loading \in [Engines -> LoadStages]
  BY DEF FailInv, TypeInv
<1>2. LoadTask(e) \in Tasks
  BY DEF Tasks
<1>3. ASSUME loading[e] \notin {"queued", "vocab queued"}, jobs' = jobs,
             NEW stage, loading' = [loading EXCEPT ![e] = stage]
      PROVE  /\ \A t \in Tasks : Wanted(t) => Wanted(t)'
             /\ ~Wanted(LoadTask(e))
             /\ stage \in {"queued", "vocab queued"} => Wanted(LoadTask(e))'
  <2>1. ~Wanted(LoadTask(e))
    BY <1>3, LoadWanted
  <2>2. \A t \in Tasks : Wanted(t) => Wanted(t)'
    BY <1>1, <1>3, <2>1, WantedLoads
  <2>3. loading'[e] = stage
    BY <1>1, <1>3
  <2>4. stage \in {"queued", "vocab queued"} => Wanted(LoadTask(e))'
    BY <2>3 DEF Wanted, LoadTask
  <2> QED
    BY <2>1, <2>2, <2>4
<1>4. ASSUME NEW from, NEW to, loading[e] = from, from \in {"no", "running"},
             to \in {"queued", "vocab queued"}, loading' = [loading EXCEPT ![e] = to],
             queue' = Append(queue, LoadTask(e)), jobs' = jobs
      PROVE  QueueInv'
  <2>1. loading[e] \notin {"queued", "vocab queued"}
    BY <1>4
  <2>2. /\ \A t \in Tasks : Wanted(t) => Wanted(t)'
        /\ ~Wanted(LoadTask(e)) /\ Wanted(LoadTask(e))'
    BY <1>3, <1>4, <2>1
  <2>3. PICK task : task = LoadTask(e)
    OBVIOUS
  <2>4. Wanted(task)'
    BY <2>2, <2>3 DEF LoadTask
  <2> QED
    BY <1>2, <1>4, <2>2, <2>3, <2>4, QueueGrows
<1>5. ASSUME loading[e] \in {"running", "vocab running"}, queue' = queue, jobs' = jobs,
             \E stage \in {"yes", "failed"} : loading' = [loading EXCEPT ![e] = stage]
      PROVE  QueueInv'
  <2>1. loading[e] \notin {"queued", "vocab queued"}
    BY <1>5
  <2> QED
    BY <1>3, <1>5, <2>1, QueueKept
<1>6. CASE LoadStarts(e)
  BY <1>4, <1>6 DEF LoadStarts
<1>7. ASSUME NEW k, Loaded(e, k) PROVE QueueInv'
  <2>1. /\ loading[e] \in {"running", "vocab running"} /\ queue' = queue /\ jobs' = jobs
        /\ loading' = [loading EXCEPT ![e] = "yes"]
    BY <1>7 DEF Loaded
  <2> QED
    BY <1>5, <2>1
<1>8. CASE LipWeightsLoaded(e)
  <2>1. CASE queue' = queue /\ loading' = [loading EXCEPT ![e] = "yes"]
    BY <1>5, <1>8, <2>1 DEF LipWeightsLoaded
  <2>2. CASE /\ queue' = Append(queue, LoadTask(e))
             /\ loading' = [loading EXCEPT ![e] = "vocab queued"]
    BY <1>4, <1>8, <2>2 DEF LipWeightsLoaded
  <2> QED
    BY <1>8, <2>1, <2>2 DEF LipWeightsLoaded
<1>9. CASE LipVocabLoaded(e)
  <2>1. /\ loading[e] \in {"running", "vocab running"} /\ queue' = queue /\ jobs' = jobs
        /\ loading' = [loading EXCEPT ![e] = "yes"]
    BY <1>9 DEF LipVocabLoaded
  <2> QED
    BY <1>5, <2>1
<1>10. CASE LoadRaises(e)
  <2>1. /\ loading[e] \in {"running", "vocab running"} /\ queue' = queue /\ jobs' = jobs
        /\ loading' = [loading EXCEPT ![e] = "failed"]
    BY <1>10 DEF LoadRaises, Loading
  <2> QED
    BY <1>5, <2>1
<1>11. CASE Unload(e)
  <2>1. jobs' = jobs /\ loading' = loading /\ queue' = queue
    BY <1>11 DEF Unload
  <2>2. \A t \in Tasks : Wanted(t) => Wanted(t)'
    BY <2>1 DEF Wanted
  <2> QED
    BY <2>1, <2>2, QueueKept
<1> QED
  BY <1>6, <1>7, <1>8, <1>9, <1>10, <1>11
  DEF LoadEnds, WhisperLoaded, TslLoaded, GlossLoaded

\* What a call of predict does with jobs and queue.
LEMMA CallForms ==
  ASSUME NEW c \in Callers, NEW e \in Engines,
         \/ WhisperPredict(c, e) \/ LipPredict(c, e)
         \/ TslPredict(c, e) \/ GlossPredict(c, e)
  PROVE  /\ Len(jobs) < MaxCalls /\ loading' = loading
         /\ \/ \E how \in {"not loaded", "empty", "raised"} : EndsAtOnce(c, e, how)
            \/ Submits(c, e)
<1>1. \E checked : Predicts(c, e, checked, {"empty", "raised"}) \/ Predicts(c, e, checked, {"raised"})
                     \/ Predicts(c, e, checked, {})
  BY DEF WhisperPredict, LipPredict, TslPredict, GlossPredict
<1>2. \/ \E how \in {"not loaded", "empty", "raised"} : EndsAtOnce(c, e, how)
      \/ Submits(c, e)
  BY <1>1 DEF Predicts
<1> QED
  BY <1>2 DEF WhisperPredict, LipPredict, TslPredict, GlossPredict, Calls

\* A new call comes last, and the others stay.
LEMMA CallAdded ==
  ASSUME jobs \in Seq(Jobs), Len(jobs) < MaxCalls, NEW job \in Jobs
  PROVE  LET n == Len(jobs) + 1
             added == Append(jobs, job)
         IN /\ n \in 1 .. MaxCalls /\ n \notin DOMAIN jobs
            /\ Len(added) = n /\ DOMAIN added = DOMAIN jobs \cup {n}
            /\ \A j \in DOMAIN jobs : added[j] = jobs[j]
            /\ added[n] = job
<1> DEFINE n == Len(jobs) + 1
           added == Append(jobs, job)
<1>1. MaxCalls \in Nat
  BY PoolAssumption
<1>2. /\ Len(jobs) \in Nat /\ DOMAIN jobs = 1 .. Len(jobs)
      /\ added \in Seq(Jobs) /\ Len(added) = n
      /\ \A j \in 1 .. Len(jobs) : added[j] = jobs[j]
      /\ added[n] = job
  BY LenProperties, AppendProperties
<1>3. DOMAIN added = 1 .. n
  BY <1>2, LenProperties
<1> HIDE DEF added
<1>4. n \in 1 .. MaxCalls /\ n \notin DOMAIN jobs /\ 1 .. n = (1 .. Len(jobs)) \cup {n}
  BY <1>1, <1>2
<1> QED
  BY <1>2, <1>3, <1>4 DEF added

\* So it is with a call that predict makes.
LEMMA CallAdds ==
  ASSUME FailInv, Len(jobs) < MaxCalls, NEW c \in Callers, NEW e \in Engines,
         NEW stage \in {"gone", "queued"},
         NEW how \in {"none", "not loaded", "empty", "raised"},
         jobs' = Append(jobs, [engine |-> e, caller |-> c, stage |-> stage, outcome |-> how])
  PROVE  LET n == Len(jobs) + 1 IN
         /\ n \in 1 .. MaxCalls /\ n \notin DOMAIN jobs
         /\ Len(jobs') = n /\ DOMAIN jobs' = DOMAIN jobs \cup {n}
         /\ \A j \in DOMAIN jobs : jobs'[j] = jobs[j]
         /\ jobs'[n].stage = stage /\ jobs'[n].outcome = how
<1>1. PICK job : job = [engine |-> e, caller |-> c, stage |-> stage, outcome |-> how]
  OBVIOUS
<1>2. job \in Jobs /\ job.stage = stage /\ job.outcome = how
  BY <1>1 DEF Jobs
<1>3. jobs' = Append(jobs, job) /\ jobs \in Seq(Jobs)
  BY <1>1 DEF FailInv, TypeInv
<1> QED
  BY <1>2, <1>3, CallAdded

\* Calls of predict keep the queue's invariant.
LEMMA CallsQueue ==
  ASSUME FailInv, QueueInv, NEW c \in Callers, NEW e \in Engines,
         \/ WhisperPredict(c, e) \/ LipPredict(c, e)
         \/ TslPredict(c, e) \/ GlossPredict(c, e)
  PROVE  QueueInv'
<1> DEFINE n == Len(jobs) + 1
<1>1. Len(jobs) < MaxCalls /\ loading' = loading
  BY CallForms
<1>2. ASSUME NEW how \in {"not loaded", "empty", "raised"}, EndsAtOnce(c, e, how)
      PROVE  QueueInv'
  <2>1. /\ DOMAIN jobs' = DOMAIN jobs \cup {n}
        /\ \A j \in DOMAIN jobs : jobs'[j] = jobs[j]
    BY <1>1, <1>2, CallAdds DEF EndsAtOnce
  <2>2. \A t \in Tasks : Wanted(t) => Wanted(t)'
    BY <1>1, <2>1 DEF Wanted, CallTask, LoadTask
  <2> QED
    BY <1>2, <2>2, QueueKept DEF EndsAtOnce
<1>3. CASE Submits(c, e)
  <2>1. /\ n \in 1 .. MaxCalls /\ n \notin DOMAIN jobs
        /\ DOMAIN jobs' = DOMAIN jobs \cup {n}
        /\ \A j \in DOMAIN jobs : jobs'[j] = jobs[j]
        /\ jobs'[n].stage = "queued" /\ jobs'[n].outcome = "none"
    BY <1>1, <1>3, CallAdds DEF Submits
  <2>2. PICK m : m = n
    OBVIOUS
  <2>3. PICK task : task = CallTask(m)
    OBVIOUS
  <2>4. task \in Tasks /\ ~Wanted(task) /\ queue' = Append(queue, task)
    BY <1>3, <2>1, <2>2, <2>3, CallWanted DEF Tasks, Submits
  <2>5. Wanted(task)'
    BY <2>1, <2>2, <2>3 DEF Wanted, CallTask
  <2>6. \A t \in Tasks : Wanted(t) => Wanted(t)'
    BY <1>1, <2>1 DEF Wanted, CallTask, LoadTask
  <2> QED
    BY <2>4, <2>5, <2>6, QueueGrows
<1> QED
  BY <1>2, <1>3, CallForms

\* What a change of stage or outcome does to the jobs.
LEMMA StageMoves ==
  ASSUME FailInv, NEW j \in DOMAIN jobs, NEW from,
         NEW to \in {"running", "hung", "computed", "broken", "raising"}, Stage(j, from, to)
  PROVE  \E job \in Jobs :
           /\ jobs' = [jobs EXCEPT ![j] = job] /\ jobs[j].stage = from
           /\ job.stage = to /\ job.outcome = jobs[j].outcome
<1>1. jobs[j] \in Jobs
  BY JobFacts
<1>2. PICK job : job = [jobs[j] EXCEPT !.stage = to]
  OBVIOUS
<1>3. job \in Jobs /\ job.stage = to /\ job.outcome = jobs[j].outcome
  BY <1>1, <1>2 DEF Jobs
<1>4. jobs' = [jobs EXCEPT ![j] = job] /\ jobs[j].stage = from
  BY <1>2 DEF Stage
<1> QED
  BY <1>3, <1>4

\* ... and the change of the outcome.
LEMMA OutcomeMoves ==
  ASSUME FailInv, NEW j \in DOMAIN jobs,
         NEW how \in {"words", "number", "broken", "raised", "timeout", "cancelled"},
         Outcome(j, how)
  PROVE  \E job \in Jobs :
           /\ jobs' = [jobs EXCEPT ![j] = job]
           /\ job.stage = jobs[j].stage /\ job.outcome = how
<1>1. jobs[j] \in Jobs
  BY JobFacts
<1>2. PICK job : job = [jobs[j] EXCEPT !.outcome = how]
  OBVIOUS
<1>3. job \in Jobs /\ job.stage = jobs[j].stage /\ job.outcome = how
  BY <1>1, <1>2 DEF Jobs
<1>4. jobs' = [jobs EXCEPT ![j] = job]
  BY <1>2 DEF Outcome
<1> QED
  BY <1>3, <1>4

\* What a worker does with the job it has.
LEMMA WorkerForms ==
  ASSUME NEW j, WorkerEnds(j) \/ WorkerRaises(j) \/ WorkerHangs(j)
  PROVE  /\ j \in DOMAIN jobs /\ UNCHANGED <<loading, queue>>
         /\ \E to \in {"computed", "broken", "raising", "hung"} : Stage(j, "running", to)
<1>1. CASE WorkerEnds(j)
  <2>1. PICK to \in {"computed", "broken"} :
          to = IF Reads[kind[jobs[j].engine]].last \subseteq parts[jobs[j].engine]
               THEN "computed" ELSE "broken"
    OBVIOUS
  <2>2. Stage(j, "running", to)
    BY <1>1, <2>1 DEF WorkerEnds
  <2> QED
    BY <1>1, <2>2 DEF WorkerEnds
<1>2. CASE WorkerRaises(j)
  BY <1>2 DEF WorkerRaises
<1>3. CASE WorkerHangs(j)
  BY <1>3 DEF WorkerHangs
<1> QED
  BY <1>1, <1>2, <1>3

\* What a worker does that takes a task.
LEMMA TakeForms ==
  ASSUME WorkerTakes
  PROVE  /\ queue # <<>> /\ Busy < Workers /\ queue' = Tail(queue)
         /\ \/ \E j \in DOMAIN jobs :
                 /\ Head(queue) = CallTask(j) /\ UNCHANGED loading
                 /\ \E to \in {"running", "broken"} : Stage(j, "queued", to)
            \/ \E e \in Engines :
                 /\ Head(queue) = LoadTask(e) /\ UNCHANGED jobs
                 /\ \E stage \in {"running", "vocab running"} :
                      loading' = [loading EXCEPT ![e] = stage]
<1>1. ASSUME NEW j \in DOMAIN jobs, TakesCall(j)
      PROVE  UNCHANGED loading /\ \E to \in {"running", "broken"} : Stage(j, "queued", to)
  <2>1. PICK to \in {"running", "broken"} :
          to = IF Reads[kind[jobs[j].engine]].first \subseteq parts[jobs[j].engine]
               THEN "running" ELSE "broken"
    OBVIOUS
  <2>2. Stage(j, "queued", to)
    BY <1>1, <2>1 DEF TakesCall
  <2> QED
    BY <1>1, <2>2 DEF TakesCall
<1>2. ASSUME NEW e \in Engines, TakesLoad(e)
      PROVE  UNCHANGED jobs /\ \E stage \in {"running", "vocab running"} :
                                 loading' = [loading EXCEPT ![e] = stage]
  BY <1>2 DEF TakesLoad
<1> QED
  BY <1>1, <1>2 DEF WorkerTakes

\* The executor's steps keep the queue's invariant.
LEMMA WorkersQueue ==
  ASSUME FailInv, QueueInv,
         \/ WorkerTakes
         \/ \E j \in 1 .. MaxCalls : WorkerEnds(j) \/ WorkerRaises(j) \/ WorkerHangs(j)
  PROVE  QueueInv'
<1>1. jobs \in Seq(Jobs) /\ loading \in [Engines -> LoadStages]
  BY DEF FailInv, TypeInv
<1>2. CASE WorkerTakes
  <2>1. Shorter(queue', Head(queue))
    BY <1>2, FirstLeaves, TakeForms
  <2>2. ASSUME NEW t \in Tasks, Wanted(t), t # Head(queue) PROVE Wanted(t)'
    <3>1. ASSUME NEW j \in DOMAIN jobs, Head(queue) = CallTask(j), UNCHANGED loading,
                 NEW to \in {"running", "broken"}, Stage(j, "queued", to)
          PROVE  Wanted(t)'
      <4>1. PICK job \in Jobs : jobs' = [jobs EXCEPT ![j] = job]
        BY <3>1, StageMoves
      <4> QED
        BY <1>1, <2>2, <3>1, <4>1, WantedMoves
    <3>2. ASSUME NEW e \in Engines, Head(queue) = LoadTask(e), UNCHANGED jobs,
                 NEW stage, loading' = [loading EXCEPT ![e] = stage]
          PROVE  Wanted(t)'
      BY <1>1, <2>2, <3>2, WantedLoads
    <3> QED
      BY <1>2, <3>1, <3>2, TakeForms
  <2> QED
    BY <2>1, <2>2, QueueShrinks
<1>3. ASSUME NEW j, WorkerEnds(j) \/ WorkerRaises(j) \/ WorkerHangs(j) PROVE QueueInv'
  <2>1. j \in DOMAIN jobs /\ loading' = loading /\ queue' = queue
    BY <1>3, WorkerForms
  <2>2. PICK to \in {"computed", "broken", "raising", "hung"} : Stage(j, "running", to)
    BY <1>3, WorkerForms
  <2>3. PICK job \in Jobs : jobs' = [jobs EXCEPT ![j] = job] /\ jobs[j].stage = "running"
    BY <2>1, <2>2, StageMoves
  <2>4. ~Wanted(CallTask(j))
    BY <2>3, CallWanted
  <2>5. \A t \in Tasks : Wanted(t) => Wanted(t)'
    BY <1>1, <2>1, <2>3, <2>4, WantedMoves
  <2> QED
    BY <2>1, <2>5, QueueKept
<1> QED
  BY <1>2, <1>3

\* What the end of a call does.
LEMMA ReturnForms ==
  ASSUME NEW c, NEW j, Returns(c, j) \/ Cancelled(c, j)
  PROVE  /\ j \in DOMAIN jobs /\ UNCHANGED loading
         /\ \/ /\ jobs[j].stage \in {"computed", "broken", "raising"} /\ UNCHANGED queue
               /\ \E how \in {"words", "number", "broken", "raised"} : Outcome(j, how)
            \/ \E how \in {"timeout", "cancelled"} : GivesUp(j, how)
<1>1. CASE WhisperReturns(c, j) \/ TslReturns(c, j) \/ GlossReturns(c, j)
  BY <1>1 DEF WhisperReturns, TslReturns, GlossReturns, Resumes, Waiting, Unanswered
<1>2. CASE LipReturns(c, j)
  <2>1. PICK how \in LipTexts(jobs[j].engine) : Resumes(c, j, "lip", how)
    BY <1>2 DEF LipReturns
  <2>2. how \in {"words", "number"}
    BY DEF LipTexts
  <2> QED
    BY <2>1, <2>2 DEF Resumes, Waiting, Unanswered
<1>3. CASE RaisesAgain(c, j)
  <2>1. PICK how \in {"broken", "raised"} :
          how = IF jobs[j].stage = "broken" THEN "broken" ELSE "raised"
    OBVIOUS
  <2>2. Outcome(j, how)
    BY <1>3, <2>1 DEF RaisesAgain
  <2> QED
    BY <1>3, <2>2 DEF RaisesAgain, Waiting, Unanswered
<1>4. CASE TimesOut(c, j) \/ Cancelled(c, j)
  BY <1>4 DEF TimesOut, Cancelled, GivesUp, Waiting, Unanswered
<1> QED
  BY <1>1, <1>2, <1>3, <1>4 DEF Returns

\* The ends of predict keep the queue's invariant.
LEMMA ReturnsQueue ==
  ASSUME FailInv, QueueInv, NEW c, NEW j, Returns(c, j) \/ Cancelled(c, j)
  PROVE  QueueInv'
<1>1. j \in DOMAIN jobs /\ loading' = loading
  BY ReturnForms
<1>2. jobs \in Seq(Jobs)
  BY DEF FailInv, TypeInv
<1>3. ASSUME NEW how \in {"words", "number", "broken", "raised", "timeout", "cancelled"},
             Outcome(j, how), NEW t \in Tasks, Wanted(t), t # CallTask(j)
      PROVE  Wanted(t)'
  <2>1. PICK job \in Jobs : jobs' = [jobs EXCEPT ![j] = job]
    BY <1>1, <1>3, OutcomeMoves
  <2> QED
    BY <1>1, <1>2, <1>3, <2>1, WantedMoves
<1>4. ASSUME jobs[j].stage \in {"computed", "broken", "raising"}, UNCHANGED queue,
             NEW how \in {"words", "number", "broken", "raised"}, Outcome(j, how)
      PROVE  QueueInv'
  <2>1. ~Wanted(CallTask(j))
    BY <1>4, CallWanted
  <2>2. \A t \in Tasks : Wanted(t) => Wanted(t)'
    BY <1>3, <1>4, <2>1
  <2> QED
    BY <1>4, <2>2, QueueKept
<1>5. ASSUME NEW how \in {"timeout", "cancelled"}, GivesUp(j, how) PROVE QueueInv'
  <2>1. \A t \in Tasks : Wanted(t) /\ t # CallTask(j) => Wanted(t)'
    BY <1>3, <1>5 DEF GivesUp
  <2>2. ASSUME NEW p \in DOMAIN queue, queue[p] = CallTask(j), queue' = Cut(queue, p)
        PROVE  QueueInv'
    <3>1. Shorter(queue', CallTask(j))
      BY <2>2, TaskLeaves
    <3> QED
      BY <2>1, <3>1, QueueShrinks
  <2>3. ASSUME \A p \in DOMAIN queue : queue[p] # CallTask(j), UNCHANGED queue
        PROVE  QueueInv'
    <3>1. Shorter(queue', CallTask(j))
      BY <2>3 DEF Shorter, QueueInv
    <3> QED
      BY <2>1, <3>1, QueueShrinks
  <2> QED
    BY <1>5, <2>2, <2>3 DEF GivesUp, Cut
<1> QED
  BY <1>4, <1>5, ReturnForms

-----------------------------------------------------------------------------

\* A set that does not grow has no more members, and one that may gain one has at
\* most one more.
LEMMA MembersCounted ==
  ASSUME NEW S, IsFiniteSet(S)
  PROVE  /\ Cardinality(S) \in Nat
         /\ \A T : T \subseteq S => IsFiniteSet(T) /\ Cardinality(T) \in Nat
                                     /\ Cardinality(T) <= Cardinality(S)
         /\ \A T, x : T \subseteq S \cup {x} =>
              IsFiniteSet(T) /\ Cardinality(T) \in Nat
                /\ Cardinality(T) <= Cardinality(S) + 1
<1>1. Cardinality(S) \in Nat
  BY FS_CardinalityType
<1>2. ASSUME NEW T, T \subseteq S
      PROVE  IsFiniteSet(T) /\ Cardinality(T) \in Nat /\ Cardinality(T) <= Cardinality(S)
  BY <1>2, FS_Subset, FS_CardinalityType
<1>3. ASSUME NEW T, NEW x, T \subseteq S \cup {x}
      PROVE  IsFiniteSet(T) /\ Cardinality(T) \in Nat /\ Cardinality(T) <= Cardinality(S) + 1
  <2>1. PICK U : U = S \cup {x}
    OBVIOUS
  <2>2. IsFiniteSet(U) /\ Cardinality(U) = IF x \in S THEN Cardinality(S) ELSE Cardinality(S) + 1
    BY <2>1, FS_AddElement
  <2>3. IsFiniteSet(T) /\ Cardinality(T) <= Cardinality(U)
    BY <1>3, <2>1, <2>2, FS_Subset
  <2>4. Cardinality(T) \in Nat
    BY <2>3, FS_CardinalityType
  <2> QED
    BY <1>1, <2>2, <2>3, <2>4
<1> QED
  BY <1>1, <1>2, <1>3

\* A step that gives no worker more to do keeps the bound.
LEMMA WorkersKept ==
  ASSUME BusyInv, Running' \subseteq Running, Loading' \subseteq Loading
  PROVE  BusyInv'
<1>1. PICK r, l : r = Running /\ l = Loading
  OBVIOUS
<1>2. PICK r2, l2 : r2 = Running' /\ l2 = Loading'
  OBVIOUS
<1>3. IsFiniteSet(r) /\ IsFiniteSet(l) /\ Cardinality(r) + Cardinality(l) <= Workers
  BY <1>1 DEF BusyInv, Busy
<1>4. /\ Cardinality(r) \in Nat /\ Cardinality(r2) \in Nat /\ Cardinality(r2) <= Cardinality(r)
      /\ IsFiniteSet(r2)
  BY <1>1, <1>2, <1>3, MembersCounted
<1>5. /\ Cardinality(l) \in Nat /\ Cardinality(l2) \in Nat /\ Cardinality(l2) <= Cardinality(l)
      /\ IsFiniteSet(l2)
  BY <1>1, <1>2, <1>3, MembersCounted
<1>6. Cardinality(r2) + Cardinality(l2) <= Workers
  BY <1>3, <1>4, <1>5, PoolAssumption
<1> QED
  BY <1>2, <1>4, <1>5, <1>6 DEF BusyInv, Busy

\* A free worker that takes one task keeps it too.
LEMMA WorkerAdded ==
  ASSUME BusyInv, Busy < Workers, NEW x,
         \/ Running' \subseteq Running \cup {x} /\ Loading' \subseteq Loading
         \/ Running' \subseteq Running /\ Loading' \subseteq Loading \cup {x}
  PROVE  BusyInv'
<1>1. PICK r, l : r = Running /\ l = Loading
  OBVIOUS
<1>2. PICK r2, l2 : r2 = Running' /\ l2 = Loading'
  OBVIOUS
<1>3. /\ IsFiniteSet(r) /\ IsFiniteSet(l) /\ Cardinality(r) + Cardinality(l) < Workers
      /\ Cardinality(r) \in Nat /\ Cardinality(l) \in Nat
  BY <1>1, MembersCounted DEF BusyInv, Busy
<1>4. /\ IsFiniteSet(r2) /\ IsFiniteSet(l2)
      /\ Cardinality(r2) \in Nat /\ Cardinality(l2) \in Nat
      /\ Cardinality(r2) + Cardinality(l2) <= Cardinality(r) + Cardinality(l) + 1
  <2>1. CASE r2 \subseteq r \cup {x} /\ l2 \subseteq l
    <3>1. IsFiniteSet(r2) /\ Cardinality(r2) \in Nat /\ Cardinality(r2) <= Cardinality(r) + 1
      BY <1>3, <2>1, MembersCounted
    <3>2. IsFiniteSet(l2) /\ Cardinality(l2) \in Nat /\ Cardinality(l2) <= Cardinality(l)
      BY <1>3, <2>1, MembersCounted
    <3> QED
      BY <1>3, <3>1, <3>2
  <2>2. CASE r2 \subseteq r /\ l2 \subseteq l \cup {x}
    <3>1. IsFiniteSet(r2) /\ Cardinality(r2) \in Nat /\ Cardinality(r2) <= Cardinality(r)
      BY <1>3, <2>2, MembersCounted
    <3>2. IsFiniteSet(l2) /\ Cardinality(l2) \in Nat /\ Cardinality(l2) <= Cardinality(l) + 1
      BY <1>3, <2>2, MembersCounted
    <3> QED
      BY <1>3, <3>1, <3>2
  <2> QED
    BY <1>1, <1>2, <2>1, <2>2
<1>5. Cardinality(r2) + Cardinality(l2) <= Workers
  BY <1>3, <1>4, PoolAssumption
<1> QED
  BY <1>2, <1>4, <1>5 DEF BusyInv, Busy

\* A job that changes is the only one that may begin to run.
LEMMA RunningMoves ==
  ASSUME jobs \in Seq(Jobs), NEW j \in DOMAIN jobs, NEW job \in Jobs,
         jobs' = [jobs EXCEPT ![j] = job]
  PROVE  /\ Running' \subseteq Running \cup {j}
         /\ (job.stage \notin {"running", "hung"} \/ jobs[j].stage \in {"running", "hung"})
              => Running' \subseteq Running
<1>1. /\ DOMAIN jobs' = DOMAIN jobs /\ jobs'[j] = job
      /\ \A i \in DOMAIN jobs : i # j => jobs'[i] = jobs[i]
  BY JobChanged
<1> QED
  BY <1>1 DEF Running

\* New calls do not run.
LEMMA CallsBusy ==
  ASSUME FailInv, BusyInv, NEW c \in Callers, NEW e \in Engines,
         \/ WhisperPredict(c, e) \/ LipPredict(c, e)
         \/ TslPredict(c, e) \/ GlossPredict(c, e)
  PROVE  BusyInv' /\ Len(jobs') <= MaxCalls
<1> DEFINE n == Len(jobs) + 1
<1>1. Len(jobs) < MaxCalls /\ loading' = loading
  BY CallForms
<1>2. \E stage \in {"gone", "queued"} :
        /\ n \in 1 .. MaxCalls /\ Len(jobs') = n
        /\ DOMAIN jobs' = DOMAIN jobs \cup {n}
        /\ \A j \in DOMAIN jobs : jobs'[j] = jobs[j]
        /\ jobs'[n].stage = stage
  <2>1. CASE Submits(c, e)
    BY <1>1, <2>1, CallAdds DEF Submits
  <2>2. CASE \E how \in {"not loaded", "empty", "raised"} : EndsAtOnce(c, e, how)
    BY <1>1, <2>2, CallAdds DEF EndsAtOnce
  <2> QED
    BY <2>1, <2>2, CallForms
<1>3. Running' \subseteq Running
  BY <1>2 DEF Running
<1>4. Loading' \subseteq Loading
  BY <1>1 DEF Loading
<1>5. Len(jobs') <= MaxCalls
  BY <1>2, PoolAssumption
<1> QED
  BY <1>3, <1>4, <1>5, WorkersKept

\* Loading takes no worker but those that it had.
LEMMA EnginesBusy ==
  ASSUME FailInv, BusyInv, NEW e \in Engines, LoadStarts(e) \/ LoadEnds(e) \/ Unload(e)
  PROVE  BusyInv' /\ jobs' = jobs
<1>1. loading \in [Engines -> LoadStages]
  BY DEF FailInv, TypeInv
<1>2. jobs' = jobs /\ \/ loading' = loading
                      \/ \E stage \in {"queued", "vocab queued", "yes", "failed"} :
                           loading' = [loading EXCEPT ![e] = stage]
  BY DEF LoadStarts, LoadEnds, Unload, WhisperLoaded, TslLoaded, GlossLoaded, Loaded,
         LipWeightsLoaded, LipVocabLoaded, LoadRaises
<1>3. Loading' \subseteq Loading
  BY <1>1, <1>2 DEF Loading
<1>4. Running' \subseteq Running
  BY <1>2 DEF Running
<1> QED
  BY <1>2, <1>3, <1>4, WorkersKept

\* A worker takes a task only when it is free.
LEMMA WorkersBusy ==
  ASSUME FailInv, BusyInv,
         \/ WorkerTakes
         \/ \E j \in 1 .. MaxCalls : WorkerEnds(j) \/ WorkerRaises(j) \/ WorkerHangs(j)
  PROVE  BusyInv' /\ Len(jobs') = Len(jobs)
<1>1. jobs \in Seq(Jobs) /\ loading \in [Engines -> LoadStages]
  BY DEF FailInv, TypeInv
<1>2. ASSUME NEW j \in DOMAIN jobs, NEW job \in Jobs, jobs' = [jobs EXCEPT ![j] = job]
      PROVE  Len(jobs') = Len(jobs)
  BY <1>1, <1>2, LenProperties, ExceptSeq
<1>3. ASSUME WorkerTakes, NEW j \in DOMAIN jobs, UNCHANGED loading,
             NEW to \in {"running", "broken"}, Stage(j, "queued", to)
      PROVE  BusyInv' /\ Len(jobs') = Len(jobs)
  <2>1. PICK job \in Jobs : jobs' = [jobs EXCEPT ![j] = job]
    BY <1>3, StageMoves
  <2>2. Running' \subseteq Running \cup {j}
    BY <1>1, <2>1, RunningMoves
  <2>3. Loading' \subseteq Loading
    BY <1>3 DEF Loading
  <2>4. Busy < Workers
    BY <1>3, TakeForms
  <2>5. BusyInv'
    BY <2>2, <2>3, <2>4, WorkerAdded
  <2> QED
    BY <1>2, <2>1, <2>5
<1>4. ASSUME WorkerTakes, NEW e \in Engines, UNCHANGED jobs, NEW stage,
             loading' = [loading EXCEPT ![e] = stage]
      PROVE  BusyInv' /\ Len(jobs') = Len(jobs)
  <2>1. Running' \subseteq Running
    BY <1>4 DEF Running
  <2>2. Loading' \subseteq Loading \cup {e}
    BY <1>1, <1>4 DEF Loading
  <2>3. Busy < Workers
    BY <1>4, TakeForms
  <2> QED
    BY <1>4, <2>1, <2>2, <2>3, WorkerAdded
<1>5. ASSUME NEW j, WorkerEnds(j) \/ WorkerRaises(j) \/ WorkerHangs(j)
      PROVE  BusyInv' /\ Len(jobs') = Len(jobs)
  <2>1. j \in DOMAIN jobs /\ loading' = loading
    BY <1>5, WorkerForms
  <2>2. PICK to \in {"computed", "broken", "raising", "hung"} : Stage(j, "running", to)
    BY <1>5, WorkerForms
  <2>3. PICK job \in Jobs : jobs' = [jobs EXCEPT ![j] = job] /\ jobs[j].stage = "running"
    BY <2>1, <2>2, StageMoves
  <2>4. Running' \subseteq Running
    BY <1>1, <2>1, <2>3, RunningMoves
  <2>5. Loading' \subseteq Loading
    BY <2>1 DEF Loading
  <2> QED
    BY <1>2, <2>1, <2>3, <2>4, <2>5, WorkersKept
<1> QED
  BY <1>3, <1>4, <1>5, TakeForms

\* The end of a call leaves its job's stage as it is.
LEMMA ReturnsBusy ==
  ASSUME FailInv, BusyInv, NEW c, NEW j, Returns(c, j) \/ Cancelled(c, j)
  PROVE  BusyInv' /\ Len(jobs') = Len(jobs)
<1>1. jobs \in Seq(Jobs) /\ j \in DOMAIN jobs /\ loading' = loading
  BY ReturnForms DEF FailInv, TypeInv
<1>2. PICK how \in {"words", "number", "broken", "raised", "timeout", "cancelled"} :
        Outcome(j, how)
  BY ReturnForms DEF GivesUp
<1>3. PICK job \in Jobs : jobs' = [jobs EXCEPT ![j] = job] /\ job.stage = jobs[j].stage
  BY <1>1, <1>2, OutcomeMoves
<1>4. Running' \subseteq Running
  BY <1>1, <1>3, RunningMoves
<1>5. Loading' \subseteq Loading
  BY <1>1 DEF Loading
<1>6. Len(jobs') = Len(jobs)
  BY <1>1, <1>3, LenProperties, ExceptSeq
<1> QED
  BY <1>4, <1>5, <1>6, WorkersKept

-----------------------------------------------------------------------------
\* At the start nobody waits and nobody works.
LEMMA InitPool == Init => PoolInv
<1> SUFFICES ASSUME Init PROVE PoolInv
  OBVIOUS
<1>1. jobs = <<>> /\ queue = <<>> /\ loading = [e \in Engines |-> "no"]
  BY DEF Init
<1>2. Len(jobs) <= MaxCalls
  BY <1>1, PoolAssumption, EmptySeq
<1>3. QueueInv
  BY <1>1, EmptySeq DEF QueueInv, Distinct
<1>4. Running = {} /\ Loading = {}
  <2>1. DOMAIN jobs = {}
    BY <1>1, EmptySeq
  <2>2. Running = {}
    BY <2>1 DEF Running
  <2>3. Loading = {}
    BY <1>1 DEF Loading
  <2> QED
    BY <2>2, <2>3
<1>5. BusyInv
  BY <1>4, FS_EmptySet, PoolAssumption DEF BusyInv, Busy
<1> QED
  BY <1>2, <1>3, <1>5, InitFail DEF PoolInv

\* Every step keeps the pool's invariant.
LEMMA PoolStep == PoolInv /\ [Next]_vars => PoolInv'
<1> SUFFICES ASSUME PoolInv, [Next]_vars PROVE PoolInv'
  OBVIOUS
<1>1. FailInv /\ Len(jobs) <= MaxCalls /\ QueueInv /\ BusyInv
  BY DEF PoolInv
<1>2. FailInv'
  BY <1>1, FailStep
<1>3. ASSUME NEW e \in Engines, LoadStarts(e) \/ LoadEnds(e) \/ Unload(e) PROVE PoolInv'
  <2>1. QueueInv'
    BY <1>1, <1>3, EnginesQueue
  <2>2. BusyInv' /\ jobs' = jobs
    BY <1>1, <1>3, EnginesBusy
  <2> QED
    BY <1>1, <1>2, <2>1, <2>2 DEF PoolInv
<1>4. ASSUME NEW c \in Callers, NEW e \in Engines,
             \/ WhisperPredict(c, e) \/ LipPredict(c, e)
             \/ TslPredict(c, e) \/ GlossPredict(c, e)
      PROVE  PoolInv'
  <2>1. QueueInv'
    BY <1>1, <1>4, CallsQueue
  <2>2. BusyInv' /\ Len(jobs') <= MaxCalls
    BY <1>1, <1>4, CallsBusy
  <2> QED
    BY <1>2, <2>1, <2>2 DEF PoolInv
<1>5. ASSUME \/ WorkerTakes
             \/ \E j \in 1 .. MaxCalls : WorkerEnds(j) \/ WorkerRaises(j) \/ WorkerHangs(j)
      PROVE  PoolInv'
  <2>1. QueueInv'
    BY <1>1, <1>5, WorkersQueue
  <2>2. BusyInv' /\ Len(jobs') = Len(jobs)
    BY <1>1, <1>5, WorkersBusy
  <2> QED
    BY <1>1, <1>2, <2>1, <2>2 DEF PoolInv
<1>6. ASSUME NEW c, NEW j, Returns(c, j) \/ Cancelled(c, j) PROVE PoolInv'
  <2>1. QueueInv'
    BY <1>1, <1>6, ReturnsQueue
  <2>2. BusyInv' /\ Len(jobs') = Len(jobs)
    BY <1>1, <1>6, ReturnsBusy
  <2> QED
    BY <1>1, <1>2, <2>1, <2>2 DEF PoolInv
<1>7. CASE UNCHANGED vars
  <2>1. UNCHANGED <<jobs, loading, queue>>
    BY <1>7 DEF vars
  <2>2. QueueInv'
    <3>1. \A t \in Tasks : Wanted(t) => Wanted(t)'
      BY <2>1 DEF Wanted
    <3> QED
      BY <1>1, <2>1, <3>1, QueueKept
  <2>3. BusyInv'
    BY <1>1, <2>1 DEF BusyInv, Busy, Running, Loading
  <2> QED
    BY <1>1, <1>2, <2>1, <2>2, <2>3 DEF PoolInv
<1> QED
  BY <1>3, <1>4, <1>5, <1>6, <1>7 DEF Next

\* In every reachable state the variables have their types, and no more threads are
\* busy than the executor has, though those that were given up go on running
\* (asyncio.to_thread, asyncio.wait_for).
THEOREM TypeCorrect == Spec => []TypeOK
<1>1. PoolInv => TypeOK
  BY DEF PoolInv, FailInv, TypeInv, LoadStages, QueueInv, Tasks, BusyInv, TypeOK
<1> QED
  BY InitPool, PoolStep, <1>1, PTL DEF Spec

\* No call that was given up before it started waits for a worker, for any number of
\* engines, callers and workers (whisper_asr_engine.py:125, the cancelled future).
THEOREM QueueHoldsWanted == Spec => []QueuedIsWanted
<1>1. PoolInv => QueuedIsWanted
  <2> SUFFICES ASSUME QueueInv, NEW j \in DOMAIN jobs,
                      NEW i \in DOMAIN queue, queue[i] = CallTask(j)
               PROVE  jobs[j].stage = "queued" /\ jobs[j].outcome = "none"
    BY DEF PoolInv, QueuedIsWanted
  <2>1. Wanted(CallTask(j))
    BY DEF QueueInv
  <2> QED
    BY <2>1, CallWanted
<1> QED
  BY InitPool, PoolStep, <1>1, PTL DEF Spec
================================================================================
