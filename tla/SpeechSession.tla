--------------------------- MODULE SpeechSession ----------------------------
(***************************************************************************)
(* One SPEECH session: the receive loop and the stale-flush watchdog of    *)
(* SessionHandler (sozia/server/api/session_handler.py), two asyncio tasks *)
(* that share the speech state of one FusionOrchestrator                   *)
(* (sozia/server/fusion/orchestrator.py), its MelAccumulator (extended     *)
(* here, variables and all), the partial identifier of its                 *)
(* SpeechFusionPolicy, and the client at the other end of the WebSocket.   *)
(*                                                                         *)
(* asyncio runs one task at a time, so a step of a task is everything up   *)
(* to its next await that can wait: an engine's predict or the next        *)
(* message.  What a task does after predict is done by the action in which *)
(* predict returns.  A segment is on the wire when it is sent.             *)
(*                                                                         *)
(* Speech chunks are numbered as in MelAccumulator; texts, confidences and *)
(* landmarks are left out, up to the branch of the code they select.       *)
(***************************************************************************)
EXTENDS MelAccumulator

CONSTANTS
  Engines,      \* the engines registered for the path, among ASR and LIP
  MinAsr,       \* the rows below which _run_asr skips a batch (100)
  FaceWindow,   \* _LIP_WINDOW_FRAMES (30)
  ChunkRows,    \* the numbers of rows a chunk may have
  MaxChunks,    \* bound: audio chunks in a session
  MaxFaces,     \* bound: face frames in a session
  IdleCap       \* bound: idle time is counted up to here

ASSUME SessionAssumption ==
  /\ Engines \subseteq {"ASR", "LIP"}
  /\ MinAsr \in Nat
  /\ FaceWindow \in Nat \ {0}
  /\ ChunkRows \subseteq Nat \ {0}
  /\ MaxChunks \in Nat /\ MaxFaces \in Nat
  /\ IdleCap \in Nat

VARIABLES
  speaking,    \* _is_speaking
  faces,       \* how many frames _face_frame_buffer holds
  lipCached,   \* _last_lip_result holds a result
  partial,     \* SpeechFusionPolicy._partial_ids, NoSeg when absent
  rpc,         \* where the receive loop waits
  rbatch,      \* the batch it has given to ASR
  wpc,         \* where the watchdog waits, or how it ended
  wbatch,      \* the batch it has given to ASR
  connected,   \* the client is there
  unread,      \* audio is waiting on the socket while the loop is busy
  ended,       \* session_end was read
  chunks,      \* audio chunks read so far
  shots,       \* face frames read so far
  segs,        \* segments made so far; the last one has this number
  screen,      \* the PARTIALs on the client's screen
  wire,        \* the last segment delivered
  \* What became of the speech chunks, and which face frames belong together:
  spoken,      \* every speech chunk read
  heard,       \* chunks for which ASR gave a FINAL
  missed,      \* chunks of batches that ended without one
  cut,         \* chunks of a batch whose task was cancelled
  outlived,    \* the watchdog was cancelled when ASR had answered it, and lived on
  crossed      \* the client paused for an utterance's end, then spoke again, while
               \* faces were held

lip == <<speaking, faces, crossed>>
fusion == <<lipCached, partial, segs, screen, wire>>
tasks == <<rpc, rbatch, wpc, wbatch, outlived>>
client == <<connected, unread, ended, chunks, shots>>
fate == <<spoken, heard, missed, cut>>
vars == <<melVars, lip, fusion, tasks, client, fate>>

NoSeg == 0
Clocks == {"session", "epoch"}

Init ==
  /\ MelInit
  /\ speaking = FALSE /\ faces = 0 /\ crossed = FALSE
  /\ lipCached = FALSE /\ partial = NoSeg /\ segs = 0
  /\ screen = {}
  /\ wire = [id |-> NoSeg, status |-> "FINAL", replaces |-> NoSeg,
             clock |-> "session"]
  /\ rpc = "recv" /\ rbatch = {}
  /\ wpc = "sleep" /\ wbatch = {} /\ outlived = FALSE
  /\ connected = TRUE /\ unread = FALSE /\ ended = FALSE
  /\ chunks = 0 /\ shots = 0
  /\ spoken = {} /\ heard = {} /\ missed = {} /\ cut = {}

-----------------------------------------------------------------------------
(* Segments and their delivery                                             *)

\* What the policy keeps as the session's partial after a segment: a PARTIAL
\* takes the place of the one before it, a FINAL pops it.
BugPartialKept(status, id) == IF status = "PARTIAL" THEN id ELSE partial

PartialAfter(status, id) == IF status = "PARTIAL" THEN id ELSE NoSeg

\* The segment made; it replaces the current partial.
BugReplacesMissing(id, status, clock) ==
  [id |-> id, status |-> status, replaces |-> NoSeg, clock |-> clock]

Segment(id, status, clock) ==
  [id |-> id, status |-> status, replaces |-> partial, clock |-> clock]

\* The policy makes a segment and the task sends it.  A client that does what
\* the segment says takes the replaced one away.
Emit(status, clock) ==
  LET id == segs + 1
      seg == Segment(id, status, clock) IN
  /\ segs' = id
  /\ partial' = PartialAfter(status, id)
  /\ IF connected
     THEN /\ wire' = seg
          /\ screen' = (screen \ {seg.replaces})
                          \cup (IF status = "PARTIAL" THEN {id} ELSE {})
     ELSE UNCHANGED <<wire, screen>>

NoEmit == UNCHANGED <<segs, partial, wire, screen>>

\* The outcomes of _run_asr for a batch b.  ASR answers with confidence 0.30
\* or more: a fused FINAL if a lip result is cached, else a standalone one.
Transcribed(b, clock) ==
  /\ Emit("FINAL", clock)
  /\ lipCached' = FALSE
  /\ heard' = heard \cup b
  /\ UNCHANGED missed

\* ASR answers with less: nothing is sent and the lip result stays cached.
Suppressed(b) ==
  /\ NoEmit
  /\ missed' = missed \cup b
  /\ UNCHANGED <<lipCached, heard>>

BugTimeoutKeepsLip(b) ==
  /\ IF lipCached THEN Emit("FINAL", "epoch") ELSE NoEmit
  /\ missed' = missed \cup b
  /\ UNCHANGED <<lipCached, heard>>

\* ASR exceeds its 3000 ms: the cached lip result is promoted, if there is one.
TimedOut(b) ==
  /\ lipCached' = FALSE
  /\ IF lipCached THEN Emit("FINAL", "epoch") ELSE NoEmit
  /\ missed' = missed \cup b
  /\ UNCHANGED heard

\* predict raises something else, or sending does because the client has gone.
\* (A send to a client that has gone may also be swallowed by the transport.)
Raised(b, clock) ==
  \/ Suppressed(b)
  \/ ~connected /\ Transcribed(b, clock)
  \/ ~connected /\ lipCached /\ TimedOut(b)

Answered(b, clock) == Transcribed(b, clock) \/ Suppressed(b) \/ TimedOut(b)

-----------------------------------------------------------------------------
(* The receive loop                                                        *)

BugWatchdogNotCancelled ==
  /\ rpc' = "done" /\ rbatch' = {}
  /\ UNCHANGED <<wpc, wbatch, cut, outlived>>

\* The loop ends, whatever the reason, and cancels the watchdog, which ends where it
\* waits.  But if ASR has just answered it, wait_for returns the answer and forgets
\* the cancellation (as on Python 3.11): the watchdog goes on.
Leave ==
  /\ rpc' = "done" /\ rbatch' = {}
  /\ \/ /\ wpc' = IF wpc = "dead" THEN "dead" ELSE "cancelled"
        /\ wbatch' = {} /\ cut' = cut \cup wbatch
        /\ UNCHANGED outlived
     \/ /\ wpc = "asr" /\ wpc' = "answered"
        /\ outlived' = TRUE
        /\ UNCHANGED <<wbatch, cut>>

\* A batch of `rows` rows goes to ASR and the loop waits at `at`; it goes on
\* without waiting when there is no batch, or _run_asr skips a short one.
ToAsr(b, rows, at) ==
  IF b # {} /\ "ASR" \in Engines /\ rows >= MinAsr
  THEN /\ rpc' = at /\ rbatch' = b
       /\ UNCHANGED missed
  ELSE /\ missed' = missed \cup b
       /\ UNCHANGED <<rpc, rbatch>>

\* An audio_feature_chunk of n rows is read (_process_speech).
HandleAudio(n, speech) ==
  LET c == chunks + 1 IN
  /\ rpc = "recv" /\ chunks < MaxChunks
  /\ chunks' = c /\ unread' = FALSE
  /\ speaking' = speech
  /\ faces' = IF speech THEN faces ELSE 0
  /\ crossed' = (speech /\ faces > 0 /\ (crossed \/ (idle >= MinSilence /\ ~unread)))
  /\ Push(c, n, speech)
  /\ spoken' = IF speech THEN spoken \cup {c} ELSE spoken
  /\ ToAsr(Returned(c, n, speech), ReturnedRows(n, speech), "asr")
  /\ UNCHANGED <<fusion, wpc, wbatch, outlived, connected, ended, shots, heard, cut>>

\* A landmark_frame with a face is read; the window's last frame starts
\* _run_lip, which empties the buffer before it looks for the engine.
HandleFace ==
  /\ rpc = "recv" /\ shots < MaxFaces
  /\ shots' = shots + 1
  /\ \/ /\ ~speaking
        /\ UNCHANGED <<faces, crossed, rpc>>
     \/ /\ speaking /\ faces + 1 < FaceWindow
        /\ faces' = faces + 1
        /\ UNCHANGED <<crossed, rpc>>
     \/ /\ speaking /\ faces + 1 >= FaceWindow
        /\ faces' = 0 /\ crossed' = FALSE
        /\ rpc' = IF "LIP" \in Engines THEN "lip" ELSE "recv"
  /\ UNCHANGED <<melVars, speaking, fusion, rbatch, wpc, wbatch, outlived, connected,
                 unread, ended, chunks, fate>>

\* Lip-reading answers with confidence 0.70 or more: the result is cached and
\* a PARTIAL sent.
LipShown ==
  /\ rpc = "lip"
  /\ lipCached' = TRUE
  /\ Emit("PARTIAL", "epoch")
  /\ \/ rpc' = "recv" /\ UNCHANGED <<rbatch, wpc, wbatch, outlived, cut>>
     \/ ~connected /\ Leave
  /\ UNCHANGED <<melVars, lip, client, spoken, heard, missed>>

\* It answers with less or times out.
LipSuppressed ==
  /\ rpc = "lip"
  /\ rpc' = "recv"
  /\ UNCHANGED <<melVars, lip, fusion, rbatch, wpc, wbatch, outlived, client, fate>>

\* It raises another exception, which ends the loop.
LipFails ==
  /\ rpc = "lip"
  /\ Leave
  /\ UNCHANGED <<melVars, lip, fusion, client, spoken, heard, missed>>

\* ASR answers the loop, which goes on; a FINAL has the client's timestamp.
AsrReturns ==
  /\ rpc = "asr"
  /\ Answered(rbatch, "session")
  /\ rpc' = "recv" /\ rbatch' = {}
  /\ UNCHANGED <<melVars, lip, wpc, wbatch, outlived, client, spoken, cut>>

\* An exception leaves _run_asr and ends the loop.
AsrFails ==
  /\ rpc = "asr"
  /\ Raised(rbatch, "session")
  /\ Leave
  /\ UNCHANGED <<melVars, lip, client, spoken>>

\* session_end is read: what is pending goes to ASR, and the loop ends at once
\* when nothing does.
HandleSessionEnd ==
  /\ rpc = "recv" /\ ~unread
  /\ ended' = TRUE
  /\ TakePending
  /\ IF buf # {} /\ "ASR" \in Engines /\ frames >= MinAsr
     THEN /\ rpc' = "end" /\ rbatch' = buf
          /\ UNCHANGED <<wpc, wbatch, outlived, missed, cut>>
     ELSE Leave /\ missed' = missed \cup buf
  /\ UNCHANGED <<lip, fusion, connected, unread, chunks, shots, spoken, heard>>

BugEndDoesNotLeave ==
  /\ rpc = "end"
  /\ Answered(rbatch, "epoch") \/ Raised(rbatch, "epoch")
  /\ rpc' = "recv" /\ rbatch' = {}
  /\ UNCHANGED <<melVars, lip, wpc, wbatch, outlived, client, spoken, cut>>

\* The last ASR returns or raises; the exception is swallowed.
EndReturns ==
  /\ rpc = "end"
  /\ Answered(rbatch, "epoch") \/ Raised(rbatch, "epoch")
  /\ Leave
  /\ UNCHANGED <<melVars, lip, client, spoken>>

\* receive_json raises WebSocketDisconnect once everything sent was read.
ReceiveDisconnect ==
  /\ rpc = "recv" /\ ~connected /\ ~unread
  /\ Leave
  /\ UNCHANGED <<melVars, lip, fusion, client, spoken, heard, missed>>

\* A malformed message raises in its handler, which nothing catches.
HandleMalformed ==
  /\ rpc = "recv" /\ connected /\ ~unread
  /\ Leave
  /\ UNCHANGED <<melVars, lip, fusion, client, spoken, heard, missed>>

-----------------------------------------------------------------------------
(* The watchdog                                                            *)

\* flush_stale_speech takes a stale buffer and gives it to ASR.
WatchdogTakes ==
  /\ wpc = "sleep"
  /\ TakeIfStale
  /\ IF "ASR" \in Engines /\ frames >= MinAsr
     THEN wpc' = "asr" /\ wbatch' = buf /\ UNCHANGED missed
     ELSE missed' = missed \cup buf /\ UNCHANGED <<wpc, wbatch>>
  /\ UNCHANGED <<lip, fusion, rpc, rbatch, outlived, client, spoken, heard, cut>>

WatchdogReturns ==
  /\ wpc = "asr"
  /\ Answered(wbatch, "epoch")
  /\ wpc' = "sleep" /\ wbatch' = {}
  /\ UNCHANGED <<melVars, lip, rpc, rbatch, outlived, client, spoken, cut>>

\* The batch is put back to be tried again.
BugBatchPutBack ==
  /\ wpc = "asr"
  /\ Hold(buf \cup wbatch, frames + MinAsr, silence) /\ UNCHANGED idle
  /\ wpc' = "sleep" /\ wbatch' = {}
  /\ UNCHANGED <<lip, fusion, rpc, rbatch, outlived, client, fate>>

\* Any exception ends the watchdog for the rest of the session.
WatchdogFails ==
  /\ wpc = "asr"
  /\ Raised(wbatch, "epoch")
  /\ wpc' = "dead" /\ wbatch' = {}
  /\ UNCHANGED <<melVars, lip, rpc, rbatch, outlived, client, spoken, cut>>

\* The answer that came with the cancellation: it is sent, or raises, like any other,
\* and the watchdog that survives it sleeps again.
WatchdogOutlives ==
  /\ wpc = "answered"
  /\ \/ (Transcribed(wbatch, "epoch") \/ Suppressed(wbatch)) /\ wpc' = "sleep"
     \/ /\ Suppressed(wbatch) \/ (~connected /\ Transcribed(wbatch, "epoch"))
        /\ wpc' = "dead"
  /\ wbatch' = {}
  /\ UNCHANGED <<melVars, lip, rpc, rbatch, outlived, client, spoken, cut>>

-----------------------------------------------------------------------------
(* The client and time                                                     *)

\* The loop or the watchdog is there to notice.
Alive == rpc # "done" \/ wpc \in {"sleep", "asr", "answered"}

\* The client goes on sending audio while the loop waits for an engine.
ClientSends ==
  /\ connected /\ ~unread
  /\ rpc \in {"lip", "asr"} /\ chunks < MaxChunks
  /\ unread' = TRUE
  /\ UNCHANGED <<melVars, lip, fusion, tasks, connected, ended, chunks, shots, fate>>

\* The client leaves, or the server closes the WebSocket of a loop that has ended.
Disconnect ==
  /\ connected /\ Alive
  /\ connected' = FALSE
  /\ UNCHANGED <<melVars, lip, fusion, tasks, unread, ended, chunks, shots, fate>>

\* Audio that has arrived is read at once by a loop that listens.
Tick ==
  /\ Alive /\ idle < IdleCap
  /\ ~(rpc = "recv" /\ unread)
  /\ Elapse(IdleCap)
  /\ UNCHANGED <<lip, fusion, tasks, client, fate>>

Receive ==
  \/ \E n \in ChunkRows, speech \in BOOLEAN : HandleAudio(n, speech)
  \/ HandleFace
  \/ LipShown \/ LipSuppressed \/ LipFails
  \/ AsrReturns \/ AsrFails
  \/ HandleSessionEnd \/ EndReturns
  \/ ReceiveDisconnect \/ HandleMalformed

Watchdog == WatchdogTakes \/ WatchdogReturns \/ WatchdogFails \/ WatchdogOutlives

Next == Receive \/ Watchdog \/ ClientSends \/ Disconnect \/ Tick

Spec == Init /\ [][Next]_vars

\* predict returns or times out, the watchdog is scheduled, time passes, a
\* message that has arrived is read and a closed socket is noticed; that the
\* client sends anything, or ever leaves, is not assumed.
Fairness ==
  /\ WF_vars(LipShown \/ LipSuppressed \/ LipFails)
  /\ WF_vars(AsrReturns \/ AsrFails)
  /\ WF_vars(EndReturns)
  /\ WF_vars(ReceiveDisconnect)
  /\ WF_vars(unread /\ \E n \in ChunkRows, speech \in BOOLEAN : HandleAudio(n, speech))
  /\ WF_vars(WatchdogTakes)
  /\ WF_vars(WatchdogReturns \/ WatchdogFails)
  /\ WF_vars(Tick)

FairSpec == Spec /\ Fairness

-----------------------------------------------------------------------------
\* Every variable has its type.
LipType == speaking \in BOOLEAN /\ faces \in Nat /\ crossed \in BOOLEAN

FusionType ==
  /\ lipCached \in BOOLEAN /\ partial \in Nat /\ segs \in Nat
  /\ screen \subseteq Nat
  /\ wire \in [id : Nat, status : {"PARTIAL", "FINAL"}, replaces : Nat,
               clock : Clocks]

TaskType ==
  /\ rpc \in {"recv", "lip", "asr", "end", "done"} /\ rbatch \subseteq Nat
  /\ wpc \in {"sleep", "asr", "answered", "dead", "cancelled"} /\ wbatch \subseteq Nat
  /\ outlived \in BOOLEAN

ClientType ==
  /\ connected \in BOOLEAN /\ unread \in BOOLEAN /\ ended \in BOOLEAN
  /\ chunks \in Nat /\ shots \in Nat

FateType ==
  /\ spoken \subseteq Nat /\ heard \subseteq Nat
  /\ missed \subseteq Nat /\ cut \subseteq Nat

TypeOK == MelTypeOK /\ LipType /\ FusionType /\ TaskType /\ ClientType /\ FateType

\* Both tasks emit segments that replace the session's partial, and either may
\* wait for an engine when the other does: the client never shows a PARTIAL the
\* server has forgotten, nor two at once, nor loses the one to be replaced.
OneLivePartial ==
  connected => screen = IF partial = NoSeg THEN {} ELSE {partial}

\* The lip result that ASR will fuse or promote (_last_lip_result) and the
\* PARTIAL that the policy will replace (_partial_ids) are kept by two objects
\* and dropped on different branches of _run_asr; they come and go together.
LipMatchesPartial == lipCached <=> partial # NoSeg

\* No speech is transcribed twice, and none is lost between the buffer and the
\* two tasks: each speech chunk is held, with one of them, or has one fate.
\* Only a task that waits for ASR has a batch.
SpeechConserved ==
  /\ spoken = buf \cup rbatch \cup wbatch \cup heard \cup missed \cup cut
  /\ buf \cap (rbatch \cup wbatch \cup heard \cup missed \cup cut) = {}
  /\ rbatch \cap (wbatch \cup heard \cup missed \cup cut) = {}
  /\ wbatch \cap (heard \cup missed \cup cut) = {}
  /\ heard \cap (missed \cup cut) = {}
  /\ missed \cap cut = {}
  /\ rbatch # {} <=> rpc \in {"asr", "end"}
  /\ wbatch # {} <=> wpc \in {"asr", "answered"}

\* The buffer holds only speech newer than what either task took, though the
\* watchdog may take it while the loop waits: batches are formed in order.
BufferIsNewest ==
  \A c \in buf : \A d \in spoken \ buf : d < c

\* Once the receive loop has ended, by whatever exit, the watchdog neither sends a
\* segment nor takes speech, unless its answer came with the cancellation.  Even then
\* a session that was asked to end sends only what that answer is: the watchdog that
\* lives on finds no more speech.
SilentAfterTeardown ==
  [][rpc = "done" =>
       /\ outlived \/ UNCHANGED <<wire, segs, buf, wbatch>>
       /\ ended => UNCHANGED buf /\ (UNCHANGED <<wire, segs>> \/ wpc = "answered")]_vars

\* The client sees a transcript: every step is one of TranscriptStream or none.
Stream == INSTANCE TranscriptStream WITH
  shown <- screen,
  wire <- [id |-> wire.id, status |-> wire.status, replaces |-> wire.replaces]

Transcript == Stream!Spec

\* A session that is asked to end does end, whatever its engines do.
EndsWhenAsked == ended ~> rpc = "done"

\* Speech long enough for ASR does not stay in the buffer, whether the client
\* goes on, pauses or leaves, unless the watchdog has died or the session ended.
SpeechMovesOn ==
  \A c \in 1 .. MaxChunks :
    c \in buf /\ frames >= MinFlush ~> (c \notin buf \/ rpc = "done" \/ wpc = "dead")

-----------------------------------------------------------------------------
\* session_handler.py:97 says pending speech is flushed every second when the
\* client stops sending frames.
WatchdogFlushes ==
  \A c \in 1 .. MaxChunks :
    c \in buf /\ frames >= MinFlush ~> (c \notin buf \/ rpc = "done")

\* session_handler.py:99 says that the watchdog runs alongside receive_loop: it is not
\* back in its own loop when receive_loop has ended.
WatchdogEndsWithLoop == rpc = "done" => wpc \notin {"sleep", "asr"}

\* orchestrator.py:281 says that on session_end partial utterances are not
\* silently discarded: what is pending is not dropped ...
EndKeepsPending == [][ended' # ended => missed' = missed]_vars

\* ... and the batch that is being transcribed is not abandoned.
EndKeepsInFlight == ended => cut = {}

\* orchestrator.py:318 says that face frames do not cross utterances.
FacesStayInUtterance == [][HandleFace /\ speaking /\ faces + 1 = FaceWindow => ~crossed]_vars

\* mel_accumulator.py:160 says a buffer is stale if no new chunk has arrived.
StaleMeansNoChunk == [][WatchdogTakes => ~unread]_vars

\* models.py:465 says a segment's timestamp counts from the session's start.
SessionClock == wire.clock = "session"
=============================================================================
