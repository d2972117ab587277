# TLA+ models of sozia-server

sozia-server turns a client's audio features and body landmarks into subtitles.
A client opens one WebSocket per session, on the SPEECH path (Whisper ASR and
lip-reading) or on the SIGN path (sign recognition, then gloss to Turkish), and
receives transcript segments: PARTIALs, which are tentative and may be replaced,
and FINALs, which are not revised.

This directory holds TLA+ models of the parts of the server that keep state,
configurations that check them with TLC, and proofs that TLAPS checks. All paths
below are relative to `src/sozia/` unless they start with `src/`.

## 1. Inventory

| Component | State | Operations | Model |
|---|---|---|---|
| Mel buffer (`server/fusion/mel_accumulator.py`) | chunks held, their rows, silence counted, time of the last push | `push`, `take_pending`, `take_if_stale`, `reset` | `MelAccumulator`, `MelStream` |
| Whisper's input (`_run_asr`, `_prepare_mel` in `server/inference/speech/whisper_asr_engine.py`) | none | a batch is turned, padded, cut and masked | `WhisperInput` |
| Speech session (`server/api/session_handler.py`, speech part of `server/fusion/orchestrator.py`, `speech_fusion_policy.py`) | speaking flag, face frames, cached lip result, the partial to replace, two asyncio tasks | one receive loop (audio, face, `session_end`), one stale-flush watchdog, segment delivery | `SpeechSession`, `SpeechLip` |
| Sign session (sign part of `orchestrator.py`, `activity_detector.py`, `frame_accumulator.py`, `gloss_accumulator.py`, `sign_fusion_policy.py`) | last wrists, two counters, active flag; frame window; glosses and partial identifier | `_process_sign` over the detector's four events, `push`, `flush`, `add` | `ActivityDetector`, `ActivityStream`, `SignSession` |
| Transcript contract (`common/models.py`) | what a client shows | PARTIAL revises, FINAL settles | `TranscriptStream` |
| Gateway (`server/api/gateway.py`, lifespan in `server/__init__.py`, `warm_up`/`cool_down` in `orchestrator.py`) | `active_sessions` under an `asyncio.Lock`, every session's engines | `on_connect`, `on_disconnect`, `shutdown_all_sessions` | `Gateway` |
| User accounts (`server/api/auth_router.py`) | `_users`, `_tokens`, the JSON file | `register`, `login`, start-up | `UserAccounts` |
| Feature fusion and degraded mode (`process_features`, `handle_timeout`, both `fuse` methods, `server/fusion/degraded_mode_handler.py`, `latest_health` in `session_handler.py`) | the policy's partial, the last report of each pipeline | fuse results computed elsewhere, alone or in pairs; judge pipelines; advise the user | `FeatureFusion` |
| Model registry (`server/registry/model_registry.py`) | loaded engines and configs | `load_model`, `unload_model`, `unload_all` | not modelled |
| Inference engines (`server/inference/`) | attributes of four engine classes, the event loop's pool of threads | `load_model`, `predict`, `unload_model` | `InferenceEngines`, without the numbers |
| API key check, factory, field validation | none | | not modelled |

**How they interact.** `on_connect` makes an orchestrator for the session, loads
its engines, registers a `SessionHandler` and runs its receive loop, which gives
each message to the orchestrator and waits for it. On the SPEECH path a second
task, the watchdog, gives the orchestrator a stale buffer every second. Both end
in `send_segment`. `on_disconnect` and the shutdown close the handler, which
unloads the engines. Everything but inference runs in one asyncio event loop, so
tasks interleave at `await`s that really wait: an engine's `predict`, a load, a
lock, a message, a close.

**What is hard.** The receive loop and the watchdog share one buffer, one cached
lip result and one partial identifier across two waits; a client can leave, and a
session can end, at any of them. Silence is measured in two ways that overlap.
Phrases of signs are built from overlapping windows, in two dictionaries that must
agree. The gateway finds sessions by an identifier that clients choose, while it
waits for loads that take minutes and may fail. Threads cannot be interrupted: an
inference that was given up runs on, in a pool that loads need too, and may find that
its engine was unloaded. Nor is cancelling a task certain: `asyncio.wait_for` may prefer
an answer that came with the cancellation. Which axis of a batch is time is told from its shape, and how
long a batch may be is known to the accumulator only, how long it must not be to the
engine only. The policy notes a PARTIAL before the segment is made, which may raise.
Accounts are written to a file as a
whole, which can be cut off. `PROJECT.json` lists these hazards at their lines.

**What makes each part correct.** Mel buffer: no speech lost or repeated, no
utterance across a silence. Speech session: every chunk has one fate, the screen
shows what the server will replace, the session ends when asked and then falls silent.
Sign session: the phrase on the screen is the one that is settled, and its words are of
one utterance. Contract: every
delivery is a legal revision. Gateway: one session per identifier, closed once, run
with all its engines, and every client answered. Engines: every call returns, and no engine is used
half-loaded. Whisper's input: a batch is heard whole and in place. Feature fusion: one
PARTIAL of the policy, no segment surer than its results, advice that fits the
decision. Accounts: a server that runs knows what was confirmed.

## 2. Modules

Constants stand for the code's parameters (the value in parentheses in a
declaration is the code's); each module names its assumptions on them in an
`ASSUME`. Definitions named `Bug...` are plausible mistakes in the definition that
follows them and are used by nothing: substituting one must break the property it
is listed with in `PROJECT.json`, which shows that the property can fail.

* `MelAccumulator` – the buffer. Time and length are counted in frames, 100 a
  second. `idle` is the time since the last push. Chunks are numbered; contents are
  left out. `Push` is the whole of `push`, by its four ways to end an utterance.
* `MelStream` – the buffer with a live client, who pushes a chunk of *n* rows no
  sooner than *n* frames after the one before, pauses, polls and drains. It records
  beside the code's counter the silence there really was (`quiet`, `inner`).
* `WhisperInput` – extends `MelStream` with what Whisper hears of `batch`. A matrix is a
  function from places to cells, and a cell is named by the frame and bin it came from,
  so that a cell out of place is seen. Levels and their normalisation are left out.
* `SpeechSession` – extends `MelAccumulator`, variables and all, with the receive
  loop (`rpc`), the watchdog (`wpc`), the batches they have given to ASR, the policy's
  partial, the client's screen and the wire. A step is everything between two waits.
  The outcomes of ASR are `Transcribed`, `Suppressed`, `TimedOut` and `Raised`; those
  of lip-reading `LipShown`, `LipSuppressed`, `LipFails`. `Leave` ends the loop and
  cancels the watchdog, which ends where it waits, or, if ASR has just answered it, goes
  on with the answer (`wpc = "answered"`, `WatchdogOutlives`; `outlived` records it):
  on Python 3.11, which the project supports, `wait_for` then returns the result and the
  cancellation is lost, and `receive_loop` does not wait for its watchdog. `spoken`, `heard`, `missed`
  and `cut` record each chunk's fate; `crossed` and `unread` record where face frames
  come from and what waits on the socket.
* `SpeechLip` – `SpeechSession` with a note (`early`) of whether the cached lip result came
  while a flush was waiting for ASR.
* `FeatureFusion` – the calls of the interface in any order, with the health reports that
  a session keeps. No call waits, so each is one action. Confidences count ten-thousandths,
  which is what `handle_degraded_input` rounds to. A segment made for a session without a
  name raises after the policy's partial was changed. `screen` says who made each PARTIAL.
* `TranscriptStream` – the abstract specification of what a client is promised.
  `SpeechSession` and `SignSession` instantiate it with their screen and wire and
  have it as a property.
* `ActivityDetector` – the detector's state and `Update`; a frame is which hands are
  seen, whether there is a pose, and where the wrists are. A wrist's position is one
  number, since only how far it moves matters.
* `ActivityStream` – the detector on any stream of frames, with a record of how long
  there really was movement or rest.
* `SignSession` – extends `ActivityDetector` with window, glosses, partial, the
  receive loop and the client. A frame is one action, `HandleFrame`, up to the engine
  it waits for. The window keeps which utterance each of its frames belongs to, `batch`
  is the window that TSL was given, and a gloss has its word, its confidence and the set
  of utterances (`from`) whose frames its window had: an utterance that ends without a
  word leaves its frames in the window (`orchestrator.py:522`), where they are
  recognised together with those of the next. `engines` is chosen initially among
  the four sets that the factory may find weights for.
* `Gateway` – one program counter for each connection, the dictionary's keys
  (`active`) and values (`handler`, `NoConn` for a reserved slot), the state of every
  engine of every session, and the shutdown. The duplicate branch keeps the lock while
  its WebSocket closes, and any send may raise. `MCGateway` adds the symmetry.
* `UserAccounts` – memory, file and tokens. `register` is one step, but writing the
  file may fail or be cut off before or after it was truncated.
* `InferenceEngines` – each engine has a class and two attributes that may be None: the
  model and what its code needs beside it. `jobs` are the calls of `predict` with the
  stage of their worker and the outcome for their caller, two fields because `wait_for`
  parts them. `Reads` says what each class's worker code reads first and last; the
  lip-reader reads its vocabulary after the wait instead. That vocabulary is optional:
  `vocab` says whether there is none (then class numbers are the text), one that names
  every class, or one that is too short and leaves the classes beyond it their numbers.
  `queue` is the executor's.
* `MCInferenceEngines` – the engines of a SPEECH session, or those of a SIGN session.
* `MCSignSession` – the frames for the run.
* `MelAccumulatorProofs`, `MelStreamProofs`, `SpeechSessionProofs`, `SignSessionProofs`,
  `GatewayProofs`, `InferenceEnginesProofs`, `FeatureFusionProofs`,
  `UserAccountsProofs` – theorems and proofs (section 5). `MelStreamProofs` is about
  `WhisperInput` too, and `SignSessionProofs` about `ActivityStream`.

## 3. Runs

| Run | Module and cfg | States | What it shows |
|---|---|---|---|
| `mel_stream` | `WhisperInput` | 513,688 | any mix of speech, silence, pauses, polls, drains and resets loses and repeats nothing (`SpeechConserved`) and never joins speech across a silence (`NeverSpansSilence`), and Whisper hears every frame of a batch in its place and nothing else (`WhisperHearsBatch`) |
| `speech_session` | `SpeechSession` | 1,292,956 | loop, watchdog, engines' outcomes and departures in any order: one fate for every chunk, in order (`SpeechConserved`, `BufferIsNewest`), the screen is what the server will replace (`OneLivePartial`, `LipMatchesPartial`), after the loop has ended the watchdog does nothing, unless its answer came with its cancellation, and even then a session that was asked to end sends that answer only (`SilentAfterTeardown`), and the contract (`Transcript`) |
| `speech_liveness` | `SpeechSession`, `SpeechLiveness.cfg` | 60,328 | a session asked to end ends (`EndsWhenAsked`) and speech long enough for ASR leaves the buffer (`SpeechMovesOn`) |
| `activity_stream` | `ActivityStream` | 273 | signing starts and ends after exactly the runs of movement and rest it should (`Hysteresis`, `NeverLate`) |
| `sign_session` | `MCSignSession` | 97,812 | the phrase shown is the one that will be settled (`ScreenIsPhrase`), every word of it was seen in frames of its utterance, at most together with frames that utterances without a word left since the last FINAL (`PhraseIsOneUtterance`), without repeats and at its best confidence (`RepeatsCollapse`, `BestIsKept`), its frames are forgotten (`SettledIsForgotten`), and the contract (`Transcript`) |
| `gateway` | `MCGateway` | 81,167 | `OneSessionPerId`, `HandlerIsOwn`, `SlotIsHeld`, `ClosedOnce`, `RunningIsWarm` under every interleaving, with failures and shutdown |
| `gateway_liveness` | `Gateway`, `GatewayLiveness.cfg` | 4,334 | every `session_init` is answered and every leaver cleaned up after |
| `inference_engines` | `MCInferenceEngines` | 224,488 | an engine fails a caller for want of an attribute, and a lip-reader that has a word for every class answers with a number, only once it was unloaded (`FailsOnlyUnloaded`), no worker starts what nobody waits for (`QueuedIsWanted`), every call returns though inferences hang (`CallsReturn`), and loads get their turn (`LoadsEnd`) |
| `user_accounts` | `UserAccounts` | 11,386 | a server that runs knows every account it confirmed (`ConfirmedIsKnown`), and a whole file is current (`FileIsCurrent`); a server that finds its file torn never runs again (section 4) |
| `feature_fusion` | `FeatureFusion` | 75,098 | whatever results, timeouts and health reports come: one PARTIAL of the speech policy (`OnePolicyPartial`), decision and advice agree (`StatusAgrees`), and no segment is surer than its results (`ConfidenceIsEarned`) |
| `gateway_duplicate` | `GatewayDuplicate.cfg` | counterexample | `DuplicateIsReal`: after a send that raised during start-up, the client that comes back is refused as a duplicate for ever |
| `whisper_square` | `WhisperInput`, `WhisperSquare.cfg` | counterexample | `AutoTransposed`: a batch with as many frames as the model has mel bins is taken for one that was transposed already, so time and frequency are exchanged; it needs a model with more bins (128) than the 100 frames of `_run_asr`'s minimum |

`TypeOK` is checked in `mel_stream`, `speech_session`, `sign_session`, `gateway` and
`inference_engines`. Deadlock is checked where the system never
stops (`activity_stream`); elsewhere sessions end and bounds run out, so
`CHECK_DEADLOCK FALSE`.

**Bounds and why they are enough.** The lengths of the mel buffer are scaled from
hundreds of frames to 2–5 and chunks to 1–2 rows, so that every comparison is met
below, at and above its boundary and a chunk can jump over one; six chunks (four in a
session) fill, flush and refill the buffer with each kind of end following each other.
`IdleCap` is at least every limit that idle time is compared with, so counting no
further changes nothing. Four face frames and windows of two give two lip results in
a session. `MaxFrames` of ten frames in a sign session is enough for three utterances,
or one phrase that fills `MaxWords` and is improved, with windows of three frames that
overlap in two. Three connections and two identifiers give a session, a competitor and
a successor, with another session beside them. Three addresses and four accounts
allow one address to be registered again after a restart has lost it. Whisper's window is
the ceiling less one and the longest chunk, the longest batch there can be, and the bins
are fewer than the minimum, as 80 are fewer than 100; `WhisperSquare.cfg` has as many as
the minimum. Confidences of results lie on each threshold, on the penalty and beside them; three segments
give a PARTIAL, another that replaces it or not, and a FINAL. Two engines, two
callers and two calls on two workers let one call hang, another queue and a load wait
behind both; the theorem has no such bounds.

**Fairness.** `SpeechSession`: engines return or time out (`wait_for` sees to it), the
event loop schedules the watchdog, time passes, messages that have arrived are read and
a closed socket is noticed, all weakly fair; nothing is assumed of the client.
`Gateway`: strong fairness for steps that take the lock, since `asyncio.Lock` serves
waiters in order; weak fairness for the server's own steps and for loads. Clients may
stay for ever, and the shutdown need not come. `InferenceEngines`: free workers serve
the queue, files are read, inferences end unless they hang, and the event loop runs
what is ready; at most `MaxHung` inferences hang, fewer than there are workers, since a
pool whose workers all hang serves nobody and the code has no defence against that.
`LoadsEnd` therefore says nothing of a pool that hangs as a whole. `SpeechMovesOn`
likewise says nothing once the watchdog has died; that is `WatchdogFlushes` in section 4.

## 4. Where documents and code differ

Two of the documented statements that do not hold of the code have runs (above).
The others are stated in the modules, each at the end of its module with the line it
comes from, and are model-checked with the configuration named here, whose property TLC
reports violated:

| Statement | Configuration | What the code does |
|---|---|---|
| `SilenceIsFull` (`mel_accumulator.py:7`) | `MelStreamSilence.cfg`, `MelStream` | a silent chunk's rows are added to a counter that holds the time in which they were recorded, so about half a second of live silence ends an utterance |
| `KeptAccumulates` (`mel_accumulator.py:163`) | `MelStreamKept.cfg`, `MelStream` | a short buffer that `take_if_stale` kept is handed out unchanged by the next push |
| `WatchdogFlushes` (`session_handler.py:97`) | `SpeechWatchdogDies.cfg`, `SpeechSession` | one exception in a flush ends the watchdog, and the speech of a client that pauses stays buffered |
| `WatchdogEndsWithLoop` (`session_handler.py:99`) | `SpeechTeardown.cfg`, `SpeechSession` | a watchdog whose answer came with its cancellation goes on sleeping and flushing after `receive_loop` has ended |
| `EndKeepsInFlight` (`orchestrator.py:281`) | `SpeechEndInFlight.cfg`, `SpeechSession` | `session_end` cancels the batch that the watchdog is having transcribed |
| `LipJoinsNextFlush` (`orchestrator.py:110`) | `SpeechLip.cfg`, `SpeechLip` | a lip result cached while the watchdog waits for ASR is fused with that earlier flush, not the next |
| `NeverStacks` (`speech_fusion_policy.py:116`) | `FusionStacks.cfg`, `FeatureFusion` | a degraded PARTIAL is not noted as the session's, so the next segment stacks on it |
| `GateHolds` (`speech_fusion_policy.py:8`) | `FusionGate.cfg`, `FeatureFusion` | a lone result below the threshold is emitted when a pipeline is unhealthy |
| `EndKeepsPending` (`orchestrator.py:281`) | `SpeechEndPending.cfg`, `SpeechSession` | an utterance under 100 rows pending at `session_end` is dropped |
| `FacesStayInUtterance` (`orchestrator.py:318`) | `SpeechFaces.cfg`, `SpeechSession` | face frames survive a pause without silent chunks and fill the next utterance's window |
| `StaleMeansNoChunk` (`mel_accumulator.py:160`) | `SpeechStale.cfg`, `SpeechSession` | a buffer counts as stale although its next chunk waits on the socket behind an engine |
| `SessionClock` (`models.py:465`) | `SpeechClock.cfg`, `SpeechSession` | lip-reading, the watchdog and `session_end` put Unix time where others put session time |
| `PositionIsOfUtterance` (`models.py:465`) | `SignPosition.cfg`, `MCSignSession` | every segment of a sign session has position 0 |
| `StampsIncrease` (`models.py:274`) | `SignStamps.cfg`, `MCSignSession` | timestamps are taken as they come |
| `CleansUpOnExit` (`gateway.py:75`) | `GatewayExit.cfg`, `Gateway` | a send that raises after registration leaves handler and engines behind |
| `ShutdownTakesAll` (`gateway.py:147`) | `GatewayShutdown.cfg`, `Gateway` | a session in warm-up is skipped, and its engines go on loading |
| `UsersArePersisted` (`auth_router.py:3`) | `AccountsTorn.cfg`, `UserAccounts` | the file is truncated and then written: a write that fails or is cut off leaves one that no server can start with, and all confirmed accounts are lost |
| `RefusedIsRegistered` (`auth_router.py:111`) | `AccountsRefused.cfg`, `UserAccounts` | an address whose registration failed while the file was written stays in memory and is refused as registered |
| `UnloadFrees` (`interfaces.py:81`) | `EnginesUnload.cfg`, `MCInferenceEngines` | `unload_model` drops the engine's own references; a worker that runs keeps the model in memory until it ends |

## 5. Proofs

Every invariant and action property that a passing run checks is a theorem, and so are
both refinements. TLAPS checks them for all values of the constants that satisfy the named
assumptions (`MelAssumption`, `StreamAssumption`, `SessionAssumption`,
`DetectorAssumption`, `SignAssumption`, `GatewayAssumption`,
`AccountsAssumption`, `PoolAssumption`, `InputAssumption`, `FusionAssumption`,
`NoneAssumption`), which say only that sizes and limits are numbers, positive where the
code needs it, that weights make a hundred, and that chunks are smaller than the ceiling.
Each invariant below was checked by TLC on the bounds of its run before it was proved.

* `MelStreamProofs`: `TypeCorrect`; `SilenceEndsUtterances` (`NeverSpansSilence`) and
  `EveryChunkKept` (`SpeechConserved`). `NeverSpansSilence` alone is not inductive:
  nothing in it ties the real silence to the code's counter. `SilenceInv` adds
  `CountsEnoughSilence`, that the counter with the idle time is never less than the
  silence there was; then a silence too long for the buffer ends it. `ChunkInv` adds
  that all chunks have numbers up to `pushed`, so a new one is new. What `push` does
  to the buffer is proved once, in `MelAccumulatorProofs`. `WhisperHearsAll`
  (`WhisperHearsBatch`) is proved under the assumption that
  `NMels < MinAsr`, without which it is false (`whisper_square`), and `InputAssumption`,
  that clients send no chunk longer than what the window leaves above the ceiling: the code
  bounds no chunk. `WindowInv` says that buffer and last batch fit the window;
  `BatchArrives` is about one batch alone, and `PushFits` about `push`.
* `SpeechSessionProofs`: `TypeCorrect`, `ScreenIsPartial` (`OneLivePartial`),
  `LipIsPartial` (`LipMatchesPartial`) and `ImplementsTranscript`, the refinement of
  `TranscriptStream`. `SegmentInv` joins screen, partial, lip cache and wire: the
  partial is older than the last segment made, the wire carries none that is newer, and
  lemmas say what each outcome of an engine keeps of that; a step then delivers one
  legal segment or nothing. `EveryChunkHasOneFate` (`SpeechConserved`) and `NewestIsHeld`
  (`BufferIsNewest`) need each other: `FateInv` has both, and that chunks are numbered
  up to `chunks` and that list and row count agree; the lemmas `Kept...` are about sets
  only, one for each way chunks move. `NothingAfterTeardown` (`SilentAfterTeardown`)
  needs what is left when the loop is done (`Closed`): every exit cancels the watchdog,
  which is gone unless `outlived`, and a session that was asked to end has emptied the
  buffer first, so that a watchdog which outlives it finds nothing to take.
* `SignSessionProofs`: `TypeCorrect`; `PhraseOfOneUtterance` (`PhraseIsOneUtterance`),
  `PhraseIsShown` (`ScreenIsPhrase`), `SettledFramesForgotten` (`SettledIsForgotten`),
  `RepeatsAreOneWord` (`RepeatsCollapse`), `BestRecognitionKept` (`BestIsKept`) and
  `ImplementsTranscript`. `PhraseInv` says where the words are at each point of the loop:
  in the accumulator while the signer signs, with GLOSS once the signer rests, and that
  the policy has a partial exactly while there are words; no new utterance begins while
  words of the last are kept anywhere. `SeenInv` says whose frames are in the window and
  in the batch that TSL has: none from before the last FINAL, and while the signer signs
  always a frame of the current utterance among those of a batch, because a window is
  given away as soon as its last frame fills it (`CollectGives`). `ScreenInv` adds that the wire carries no
  segment newer than the last made, from which the refinement follows, and `WindowInv`
  that an utterance under way is not settled, so that its frames may stay. What `push`
  does to the phrase (`PushFacts`) is a matter of sequences only.
  `SwitchesInTime` (`NeverLate`) and `SwitchesNoSooner` (`Hysteresis`) are about the
  detector alone, under `StreamSpec` of `ActivityStream`: `RunInv` says that the counter
  that is read next is the length of the run there really was, and that the wrists
  compared with are those of the last frame, so that the code sees movement exactly
  where there is some (`MovementSeen`).
* `GatewayProofs`: `TypeCorrect`, `NoTwoRunOneSession` (`OneSessionPerId`),
  `DictionaryIsOwn` (`HandlerIsOwn`), `NoSlotLeftBehind` (`SlotIsHeld`),
  `NoHandlerClosedTwice` (`ClosedOnce`) and `RunsWithItsEngines` (`RunningIsWarm`).
  `SlotInv` adds `SlotsAreReserved`, the converse of `SlotIsHeld`: a claim looks at slots,
  not at connections. `CloseInv` says that a handler which is in the dictionary, or in
  the shutdown's list, or not yet made, has not been closed, and that no handler is in
  both. `WarmInv` says that a connection which cools down engines cools its own, or a
  crashed one's whose slot it found. Ten of the steps change little and are one case
  (`WaitsMove`).
* `InferenceEnginesProofs`: `FailuresAreOfUnloaded` (`FailsOnlyUnloaded`). `FailInv` adds
  `WholeInv`, that a loaded engine which was not unloaded has all its attributes
  (`Whole`: a lip-reader needs its vocabulary only if one is configured), and the lip-reader's model while its vocabulary is read; and `JobInv`, that calls are of
  loaded engines and that a broken worker's engine was unloaded, which the outcome
  shows only later. What happens to one job of the sequence is proved once, in
  `MovesKeep`. `QueueHoldsWanted` (`QueuedIsWanted`): `QueueInv` says that everything in the
  queue is wanted and in it once only. Without the second half a call that is given up could
  leave a copy behind, and a worker that takes a task could leave it to another. What
  joining, leaving at the head and leaving in the middle do to a queue is said by
  `TaskJoins`, `FirstLeaves` and `TaskLeaves`. `TypeCorrect` has the bound on busy
  workers, by counting: a step adds at most one member to `Running` or `Loading`, and only
  when a worker is free.
* `FeatureFusionProofs`: `OwnPartialIsShown` (`OnePolicyPartial`), `AdviceIsGiven`
  (`StatusAgrees`) and `NoConfidenceUnearned` (`ConfidenceIsEarned`). `PartialInv` adds
  only types; `PolicyShows` and `DegradedShows` are
  about screens, and each way of making a segment is shown to keep the two in step. That
  a merged confidence lies between its two is `MeanBetween`, for any weights that make a
  hundred; that it passes the speech policy's threshold needs that the lip-reader's is no lower.
* `UserAccountsProofs`: `ConfirmedAreKnown` and `FileStaysCurrent`. `AccountsInv` says of
  the file that it has all confirmed accounts also while no server runs, which is what the
  next start needs, and that it has none that memory has not, without which a new account
  could meet another one in the file.

Only model-checked: liveness, since temporal reasoning under fairness and ENABLED are
outside the proof system's reach here (`EndsWhenAsked`, `SpeechMovesOn`,
`ClaimIsAnswered`, `LeaverIsCleanedUp`, `CallsReturn`, `LoadsEnd`), and all
counterexamples. `GivesUp` of `InferenceEngines` cuts the task out of the queue by its place:
the library's `SelectSeq` is recursive and opaque to the provers, and no task is twice
in the queue.

## 6. Not modelled, and why

* Inference itself: numerical. The other models have of an inference only what its caller
  sees. Of the preparation of features, Whisper's is in `WhisperInput`; the lip-reader and
  the sign recogniser always get a full window of one size, so nothing is left to vary.
* Python 3.12 and later, where `wait_for` lets the cancellation through: the step
  `WatchdogOutlives` does not occur there, and all properties hold all the more.
* Chunks whose rows differ in width. `np.concatenate` would raise for them at
  `mel_accumulator.py:209`, after the buffer was popped, so that its speech is lost and,
  in the loop, the session ends. Every chunk is taken to have the model's bins.
* Whether frames of an utterance without a word *should* count for the next phrase. No
  document says so or forbids it; `PhraseIsOneUtterance` says how far it goes.
* Sends that block: a send returns or raises.
* The model registry: the server registers classes in it and unloads it, empty, at
  shutdown; engines are loaded by orchestrators. Only tests call `load_model` and
  `unload_model`, one call after the other, so a model would have to invent callers.
* Results that no engine of the path makes (two of one type, or of the other path), in
  `FeatureFusion`.
* `reset_session`: no caller in the server. The resets of the buffers it calls are
  actions of `MelStream` and `ActivityStream`.
* `pipeline_health` on the paths of a session: stored, and read by nothing there. It is an
  input of `FeatureFusion`. The statuses of `evaluate` and the advice have no caller either.
* The API key check, field validation and configuration: stateless.

## 7. Plan

Order: the speech path first, as it has two tasks; then the gateway, the sign path,
the accounts and the engines. Done: sections 2 to 5. Left:

1. The safety parts that liveness rests on, as invariants and theorems: whoever waits for the
   gateway's lock waits for a connection that can release it; a worker can always take the
   head of the queue; a buffer long enough for ASR is one that some task will look at.
2. Proofs for the boundary of the documented promises: under which further assumption each
   statement of section 4 would hold, as `NMels < MinAsr` is for `WhisperHearsBatch`.
