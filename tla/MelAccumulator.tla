--------------------------- MODULE MelAccumulator ---------------------------
(***************************************************************************)
(* The mel-spectrogram buffer of one speech session                        *)
(* (sozia/server/fusion/mel_accumulator.py).  It collects speech chunks    *)
(* and gives them back as one batch at an utterance boundary: enough       *)
(* silence, the frame ceiling, or a wall-clock gap.                        *)
(*                                                                         *)
(* Chunks are numbered in order of arrival; a chunk's content is left out  *)
(* and only its number of rows and whether it is speech are kept.  All     *)
(* lengths and times are counted in frames (100 per second), so a          *)
(* wall-clock gap of k hundredths of a second is k frames, as in the code. *)
(* _has_seen_speech is left out: a speech chunk sets it when it makes      *)
(* frames positive and _flush clears both, so it equals frames > 0.        *)
(***************************************************************************)
EXTENDS Integers

CONSTANTS
  MaxFrames,   \* max_frames: ceiling of the buffer (1500)
  MinSilence,  \* min_silence_frames: silence that ends an utterance (100)
  MinFlush,    \* min_frames of take_if_stale (100)
  StaleAfter   \* stale_after_s of take_if_stale, in frames (1 s = 100)

ASSUME MelAssumption ==
  /\ MaxFrames \in Nat \ {0}
  /\ MinSilence \in Nat \ {0}
  /\ MinFlush \in Nat
  /\ StaleAfter \in Nat \ {0}

VARIABLES
  buf,      \* _buffers: the speech chunks held
  frames,   \* _frame_counts: their rows
  silence,  \* _silence_frame_counts: consecutive silence counted so far
  idle      \* time.monotonic() - _last_push_time; meaningless, and not read,
            \* before the first push, since then frames = 0

melVars == <<buf, frames, silence, idle>>

MelInit ==
  /\ buf = {}
  /\ frames = 0
  /\ silence = 0
  /\ idle = 0

Hold(b, f, s) == buf' = b /\ frames' = f /\ silence' = s

-----------------------------------------------------------------------------
(* push                                                                     *)

\* Definitions named Bug... are what a plausible mistake would make of the
\* definition after them; nothing uses them but the runs that show that a
\* property notices the mistake.
BugGapBackwards == IF frames > 0 THEN silence - idle ELSE silence
BugGapIgnored == silence

\* The silence counter once the wall-clock gap since the last push is added.
SilenceWithGap == IF frames > 0 THEN silence + idle ELSE silence

\* The gap alone completes the silence: the buffer is flushed before the new
\* chunk is looked at.
GapEnds == frames > 0 /\ idle > 0 /\ SilenceWithGap >= MinSilence

BugCeilingOffByOne(n, speech) == ~GapEnds /\ speech /\ frames + n > MaxFrames

\* A speech chunk of n rows fills the buffer up to the ceiling.
CeilingEnds(n, speech) == ~GapEnds /\ speech /\ frames + n >= MaxFrames

\* A silent chunk of n rows completes the silence after speech.
SilenceEnds(n, speech) ==
  ~GapEnds /\ ~speech /\ frames > 0 /\ SilenceWithGap + n >= MinSilence

Flushes(n, speech) ==
  GapEnds \/ CeilingEnds(n, speech) \/ SilenceEnds(n, speech)

BugLastChunkLost(c, n, speech) == IF Flushes(n, speech) THEN buf ELSE {}

\* What push returns for chunk c: the flushed chunks ({} is the code's None)
\* and how many rows they have.
Returned(c, n, speech) ==
  IF CeilingEnds(n, speech) THEN buf \cup {c}
  ELSE IF Flushes(n, speech) THEN buf ELSE {}

ReturnedRows(n, speech) ==
  IF CeilingEnds(n, speech) THEN frames + n
  ELSE IF Flushes(n, speech) THEN frames ELSE 0

\* A silent chunk counts as silence only after speech; otherwise it is dropped.
Push(c, n, speech) ==
  /\ idle' = 0
  /\ \/ /\ GapEnds /\ speech
        /\ Hold({c}, n, 0)
     \/ /\ GapEnds /\ ~speech
        /\ Hold({}, 0, 0)
     \/ /\ CeilingEnds(n, speech) \/ SilenceEnds(n, speech)
        /\ Hold({}, 0, 0)
     \/ /\ ~Flushes(n, speech) /\ speech
        /\ Hold(buf \cup {c}, frames + n, 0)
     \/ /\ ~Flushes(n, speech) /\ ~speech
        /\ Hold(buf, frames, IF frames > 0 THEN SilenceWithGap + n ELSE silence)

-----------------------------------------------------------------------------
(* take_pending, take_if_stale, reset                                       *)

\* take_pending returns buf (None when it is empty) and empties the buffer;
\* the time of the last push stays.
TakePending == Hold({}, 0, 0) /\ UNCHANGED idle

BugStaleOffByOne == frames > 0 /\ idle >= StaleAfter /\ frames > MinFlush

\* take_if_stale returns buf exactly when this holds.
Stale == frames > 0 /\ idle >= StaleAfter /\ frames >= MinFlush

BugStaleNotFlushed == Stale /\ UNCHANGED melVars

TakeIfStale == Stale /\ TakePending

Reset == Hold({}, 0, 0) /\ idle' = 0

\* Time passes by one frame; cap is where a model stops counting it.
Elapse(cap) ==
  /\ idle' = IF idle < cap THEN idle + 1 ELSE idle
  /\ UNCHANGED <<buf, frames, silence>>

-----------------------------------------------------------------------------
MelTypeOK == buf \subseteq Nat /\ frames \in Nat /\ silence \in Nat /\ idle \in Nat

\* The list and the row count are kept apart in the code and read one for the
\* other: take_pending and take_if_stale test the count, _flush gives the list.
ListMatchesCount == buf = {} <=> frames = 0
=============================================================================
