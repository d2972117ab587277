---------------------------- MODULE WhisperInput -----------------------------
(***************************************************************************)
(* What Whisper hears of a batch: the frames that MelAccumulator hands out *)
(* (MelStream, extended here, variables and all) on their way through      *)
(* _run_asr of FusionOrchestrator into the tensor of                       *)
(* WhisperAsrEngine._prepare_mel.                                          *)
(*                                                                         *)
(* A cell stands for one number of the client's spectrogram and is named   *)
(* <<frame, bin>>, frames counted from the start of the batch.  Levels and *)
(* their normalisation are left out; the energy gate in front passes every *)
(* batch, since the accumulator collects only chunks above the same        *)
(* threshold.                                                              *)
(***************************************************************************)
EXTENDS MelStream

CONSTANTS
  NMels,    \* _n_mels: feature_size of the model that is loaded (80 or 128)
  MinAsr,   \* the frames below which _run_asr skips a batch (100)
  Window    \* target_t: the frames of Whisper's window (3000)

ASSUME InputAssumption ==
  /\ NMels \in Nat \ {0} /\ MinAsr \in Nat /\ Window \in Nat
  \* About the client, since the code bounds no chunk: it sends none that is longer
  \* than what the window has above the ceiling (15 s).
  /\ MaxFrames <= Window + 1 /\ \A n \in ChunkRows : MaxFrames + n <= Window + 1

\* A matrix has rows and columns and a cell at each place.
Matrix(rows, cols, at(_, _)) ==
  [rows |-> rows, cols |-> cols, at |-> [p \in (1 .. rows) \X (1 .. cols) |-> at(p[1], p[2])]]

Padding == <<0, 0>>

\* A batch of n frames as it leaves the accumulator: one row for each frame.
Features(n) == Matrix(n, NMels, LAMBDA r, c : <<r, c>>)

Transposed(m) == Matrix(m.cols, m.rows, LAMBDA r, c : m.at[<<c, r>>])

\* Which axis is time is told from the shape.
Oriented(m) ==
  IF m.rows = NMels THEN m
  ELSE IF m.cols = NMels THEN Transposed(m) ELSE m

\* Missing bins and frames are padded, and frames after the window cut off.
Fitted(m) ==
  Matrix(IF m.rows < NMels THEN NMels ELSE m.rows, Window,
         LAMBDA r, c : IF r <= m.rows /\ c <= m.cols THEN m.at[<<r, c>>] ELSE Padding)

\* The mel tensor and how many of its frames the attention mask marks as real.
PrepareMel(features) ==
  LET arr == Oriented(features) IN
  [mel |-> Fitted(arr), real |-> IF arr.cols < Window THEN arr.cols ELSE Window]

\* _run_asr gives batches that are long enough to the engine.
Asked(n) == n > 0 /\ n >= MinAsr

-----------------------------------------------------------------------------
\* A batch never exceeds the window; with this WhisperHearsBatch is inductive.
FitsWindow == frames < MaxFrames /\ batch.rows <= Window

\* Whisper hears exactly what was said: every bin of every frame of a batch, in
\* order and nothing else, with the mask over just these frames.  That no frame is
\* cut off rests on the accumulator's ceiling, and that bins are not taken for
\* frames on _run_asr's minimum; neither knows of the engine.
WhisperHearsBatch ==
  Asked(batch.rows) =>
    LET heard == PrepareMel(Features(batch.rows)) IN
    /\ heard.real = batch.rows
    /\ heard.mel.rows = NMels
    /\ \A p \in (1 .. NMels) \X (1 .. Window) :
         heard.mel.at[p] = IF p[2] <= batch.rows THEN <<p[2], p[1]>> ELSE Padding

-----------------------------------------------------------------------------
\* whisper_asr_engine.py:95 says features of either orientation are transposed as
\* needed: the client's frames are the time axis.
AutoTransposed ==
  Asked(batch.rows) =>
    LET arr == Oriented(Features(batch.rows)) IN
    \A f \in 1 .. batch.rows : arr.at[<<1, f>>] = <<f, 1>>
=============================================================================
